---- MODULE Spec2Model ----
(***************************************************************************)
(* Workflow execution engine of GenAIStudio (server/services/workflow.ts,  *)
(* carried in src/server/routes.ts lines 86-522) running against the       *)
(* in-memory store (MockStorage, src/server/storage.ts lines 38-289).      *)
(*                                                                         *)
(* A run is the call executeWorkflow(workflow); executeNode is recursive   *)
(* and asynchronous, so each run carries an explicit call stack of         *)
(* executeNode frames.  One model step is the code between two awaits.     *)
(* Step ids are kept as integers in the store and as strings ("1", "2",    *)
(* ...) in the engine, as the code converts them with toString().          *)
(*                                                                         *)
(* Spec is the engine as POST /api/workflows/:id/execute drives it;        *)
(* SpecServer adds trigger data, AI steps, on which a run is suspended,    *)
(* and the PATCH and DELETE routes (src/server/routes.ts lines 1-84).      *)
(***************************************************************************)
EXTENDS Integers, Sequences, FiniteSets, TLC

\* ------------------------------------------------------------------ bounds
\* Longest array a code step of the model returns (the items of a loop).
MaxItems == 2
\* Number of PATCH requests served.
MaxPatches == 1
\* Steps and edges a workflow holds when they are created one by one.
MaxStoreSteps == 3
MaxStoreEdges == 2

\* ------------------------------------------------------------- JS values
NULL == "<none>"

Undefined == [t |-> "undefined", v |-> <<>>]
JsNull == [t |-> "null", v |-> <<>>]
Triggered == [t |-> "object", v |-> <<"triggered">>]
NaN == [t |-> "NaN", v |-> <<>>]
EmptyObject == [t |-> "object", v |-> <<>>]
Num(n) == [t |-> "number", v |-> n]
Arr(s) == [t |-> "array", v |-> s]
CondResult(b) == [t |-> "condition", v |-> b]
SwitchResult(x) == [t |-> "switch", v |-> x]

\* Array.isArray(x)
IsArray(x) == x.t = "array"

\* JS truthiness of a value, as used by `x || []`
Truthy(x) == x.t \notin {"undefined", "null", "NaN"}

\* step.id.toString() / edge.targetId.toString()
IdStr == <<"1", "2", "3", "4", "5">>
toString(i) == IdStr[i]

\* The numbers 1..n as a JS array
RECURSIVE NumsUpTo(_)
NumsUpTo(n) == IF n = 0 THEN <<>> ELSE Append(NumsUpTo(n - 1), Num(n))

\* ------------------------------------------------------- trigger data
\* executeWorkflow(workflow) without a second argument
NoTrigger == [type |-> NULL, eventType |-> NULL, payload |-> NULL, outputs |-> <<>>]

\* TriggerData: { type, payload, eventType, outputs }; outputs is the outputs
\* map of the source workflow's run, keyed by that workflow's step ids
Trigger(type, eventType, outputs) ==
    [type |-> type, eventType |-> eventType, payload |-> "payload", outputs |-> outputs]

\* { triggered: true, triggerType: trigger.type, ...trigger } (lines 195-199),
\* written as the list of the values it holds
SeededOutput(trigger) ==
    [t |-> "object", v |-> <<"triggered", trigger.type, trigger.eventType, trigger.payload>>]

\* no call of processTemplate has been made
\* no run of the second executeWorkflow
NoLegacy ==
    [nodes |-> <<>>, edges |-> <<>>, pc |-> "idle", execution |-> 0, outputs |-> <<>>,
     visited |-> {}, pending |-> <<>>, invoked |-> <<>>, written |-> <<>>]

NoCall == [template |-> <<>>, inputs |-> Undefined, done |-> FALSE, result |-> ""]

\* ------------------------------------------------------------- errors
CycleError(path, nodeId) ==
    [msg |-> "Circular dependency detected in execution path", path |-> Append(path, nodeId)]
LoopInputError == [msg |-> "Loop input must be an array", path |-> <<>>]
UserError == [msg |-> "boom", path |-> <<>>]
NullToStringError == [msg |-> "Cannot read properties of null (reading 'toString')", path |-> <<>>]
AIError == [msg |-> "AI request failed", path |-> <<>>]
NoError == [msg |-> NULL, path |-> <<>>]

\* ------------------------------------------------- workflows of the model
\* A step's kind and configuration.  The user-authored texts are taken from
\* a small set of programs:
\*   code      "items"    return [1, ..., n]
\*             "double"   return context.outputs.currentItem * 2
\*             "throw"    throw new Error("boom")
\*             "random"   return { value: Math.random() > 0.5 }
\*   condition "true" / "false"   config.condition
\*             "throw"    an expression that throws
\*   switch    "a" / "b"  an expression yielding that string
\*             "null"     an expression that throws or yields null
\*   loop      input      config.input, the outputs key holding the items
StepKinds ==
    {[type |-> "manual_trigger", config |-> "", n |-> 0]}
    \cup {[type |-> "code", config |-> "items", n |-> MaxItems]}
    \cup {[type |-> "code", config |-> c, n |-> 0] : c \in {"double", "throw"}}
    \cup {[type |-> "condition", config |-> c, n |-> 0] : c \in {"true", "false"}}
    \cup {[type |-> "switch", config |-> c, n |-> 0] : c \in {"a", "b", "null"}}
    \cup {[type |-> "loop", config |-> "1", n |-> 0]}

ItemsStep == [type |-> "code", config |-> "items", n |-> MaxItems]

\* An edge slot of a shape: the label the edge carries depends on the kind
\* of its source (edge label grammar: "true"/"false" out of a condition, a
\* case value or "default" out of a switch, none otherwise).
E(s, t, cl, sl) == [s |-> s, t |-> t, cl |-> cl, sl |-> sl]

Shapes == {
    \* chain a -> b -> c
    <<E(1, 2, "true", "a"), E(2, 3, "true", "a")>>,
    \* fork a -> b, a -> c
    <<E(1, 2, "true", "a"), E(1, 3, "false", "default")>>,
    \* fork whose edges carry the same label
    <<E(1, 2, "true", "b"), E(1, 3, "true", "b")>>,
    \* triangle a -> b, a -> c, b -> c (c has two incoming edges)
    <<E(1, 2, "true", "a"), E(1, 3, "false", "default"), E(2, 3, "true", "default")>>,
    \* two start steps joining in c
    <<E(1, 3, "true", "a"), E(2, 3, "false", "default")>>,
    \* cycle b -> c -> b reachable from the start step a
    <<E(1, 2, "true", "a"), E(2, 3, "true", "a"), E(3, 2, "true", "default")>>,
    \* self-loop on b, reachable from a
    <<E(1, 2, "true", "a"), E(2, 2, "true", "a"), E(2, 3, "false", "default")>>,
    \* every step on a cycle: no start step
    <<E(1, 2, "true", "a"), E(2, 3, "true", "a"), E(3, 1, "true", "a")>>
}

\* every shape has the steps a, b, c
ShapeSteps == 1..3

\* the shapes also run behind a step that returns the items of a loop
PrefixedShapes == {
    <<E(1, 2, "true", "a"), E(2, 3, "true", "a")>>,
    <<E(1, 2, "true", "a"), E(1, 3, "false", "default")>>
}

LabelOf(e, kinds) ==
    IF kinds[e.s].type = "condition" THEN e.cl
    ELSE IF kinds[e.s].type = "switch" THEN e.sl
    ELSE NULL

\* MockStorage.createWorkflowStep: ids are 1, 2, ... in creation order
MkSteps(kinds) ==
    [i \in 1..Len(kinds) |-> [id |-> i, type |-> kinds[i].type,
                              config |-> kinds[i].config, n |-> kinds[i].n]]

\* MockStorage.createWorkflowEdge: label kept, null when absent
MkEdges(shape, kinds, shift) ==
    [i \in 1..Len(shape) |->
        [id |-> i + shift, sourceId |-> shape[i].s + shift, targetId |-> shape[i].t + shift,
         label |-> LabelOf([shape[i] EXCEPT !.s = @ + shift], kinds)]]

\* The workflows a run is started on: every shape with every assignment of
\* kinds to its steps, and the chain and the fork also behind a code step
\* that returns the items array (so that a loop on a can iterate).
Workflows ==
    {[steps |-> MkSteps(k), edges |-> MkEdges(sh, k, 0)] :
        sh \in Shapes, k \in [ShapeSteps -> StepKinds]}
    \cup
    {[steps |-> MkSteps(<<ItemsStep>> \o k),
      edges |-> <<[id |-> 1, sourceId |-> 1, targetId |-> 2, label |-> NULL]>>
                \o MkEdges(sh, <<ItemsStep>> \o k, 1)] :
        sh \in PrefixedShapes, k \in [ShapeSteps -> StepKinds]}

\* ------------------------------------------------------------------ state
\* the requests POST /api/workflows/:id/execute served by one process, in order
RunIds == {1, 2}
WorkflowId == 1

VARIABLES
    workflows,      \* MockStorage.workflows: workflow id -> Workflow
    steps,          \* MockStorage.steps: workflow id -> stored steps
    edges,          \* MockStorage.edges: workflow id -> stored edges
    executions,     \* MockStorage.executions: run id -> WorkflowExecution
    stepExecutions, \* MockStorage.stepExecutions, in Map insertion order
    now,            \* the clock read by new Date()
    pc,             \* per run: position in executeWorkflow
    execution,      \* per run: `const execution`, the object createExecution returned
    startNodes,     \* per run: start nodes still to be run (for loop, l.218)
    contexts,       \* per run: the ExecutionContext objects (outputs, currentPath)
    visited,        \* per run: context.visited, one Set shared by all contexts
    stack,          \* per run: the executeNode calls in progress, innermost last
    thrown,         \* per run: the error being propagated, NoError if none
    ret,            \* per run: value returned by the executeNode call that ended last
    calls,          \* per run: the executeNode calls made so far, in order; `again`
                    \* tells that the handler of the called step had run before
    handled,        \* per run: the steps whose switch(node.type) arm was entered
    graph,          \* per run: `const graph`, the Map executeWorkflow builds from the
                    \* edges it read at its start (l.143-165): source -> targets
    triggerData,    \* per run: the second argument of executeWorkflow
    patches,        \* the bodies of the PATCH /api/workflows/:id requests served so far
    cancelled,      \* per run: the cancellation signal of the run has been raised
    responses,      \* the response to the last POST /api/webhooks/:id request, if any
    resolverCall,   \* a call processTemplate(template, inputs) and what it returned
    legacy          \* the run of the second executeWorkflow (l.524-619): its workflow
                    \* argument and the locals outputs, visited and pending calls

vars == <<workflows, steps, edges, executions, stepExecutions, now, pc, execution,
          startNodes, contexts, visited, stack, thrown, ret, calls, handled, graph,
          triggerData, patches, cancelled, responses, resolverCall, legacy>>

storeVars == <<workflows, steps, edges>>
requestVars == <<triggerData, patches, cancelled, responses, resolverCall, legacy>>

\* ------------------------------------------------------------ MockStorage
\* a request body without the keys steps and edges
NoGraph == [present |-> FALSE, hasSteps |-> FALSE, hasEdges |-> FALSE, steps |-> <<>>, edges |-> <<>>]

\* the workflow the constructor adds; `graph` stands for the keys steps and
\* edges of the record, NoGraph while the record has neither
DefaultWorkflow == [id |-> WorkflowId, name |-> "My First Workflow", graph |-> NoGraph]

\* getWorkflowSteps / getWorkflowEdges
getWorkflowSteps(workflowId) == IF workflowId \in DOMAIN steps THEN steps[workflowId] ELSE <<>>
getWorkflowEdges(workflowId) == IF workflowId \in DOMAIN edges THEN edges[workflowId] ELSE <<>>

Last(seq) == seq[Len(seq)]

\* updateWorkflow (lines 82-128): { ...workflow, ...updates }; the steps are
\* stored with ids 1, 2, ... when updates has the key steps, and the edges
\* with their endpoints only when it has the key edges
updateWorkflowRecord(id, updates) ==
    [workflows EXCEPT ![id] =
        [@ EXCEPT !.name = updates.name,
                  !.graph = [present |-> @.present \/ updates.graph.present,
                             hasSteps |-> @.hasSteps \/ updates.graph.hasSteps,
                             hasEdges |-> @.hasEdges \/ updates.graph.hasEdges,
                             steps |-> IF updates.graph.hasSteps THEN updates.graph.steps
                                       ELSE @.steps,
                             edges |-> IF updates.graph.hasEdges THEN updates.graph.edges
                                       ELSE @.edges]]]

updateWorkflowSteps(id, updates) ==
    IF updates.graph.hasSteps
    THEN (id :> [i \in 1..Len(updates.graph.steps) |->
                    [id |-> i, type |-> updates.graph.steps[i].type,
                     config |-> updates.graph.steps[i].config,
                     n |-> updates.graph.steps[i].n]]) @@ steps
    ELSE steps

updateWorkflowEdges(id, updates) ==
    IF updates.graph.hasEdges
    THEN (id :> [i \in 1..Len(updates.graph.edges) |->
                    [id |-> i, sourceId |-> updates.graph.edges[i].sourceId,
                     targetId |-> updates.graph.edges[i].targetId, label |-> NULL]]) @@ edges
    ELSE edges

\* createWorkflowStep (lines 140-154): id = (number of steps stored) + 1
createWorkflowStep(workflowId, step) ==
    LET workflowSteps == IF workflowId \in DOMAIN steps THEN steps[workflowId] ELSE <<>>
    IN (workflowId :> Append(workflowSteps,
            [id |-> Len(workflowSteps) + 1, type |-> step.type, config |-> step.config,
             n |-> step.n])) @@ steps

\* deleteWorkflowStep (lines 177-185): steps.filter(s => s.id !== id); the
\* store of the model holds one workflow
deleteWorkflowStep(id) ==
    [w \in DOMAIN steps |-> SelectSeq(steps[w], LAMBDA x : x.id # id)]

\* createWorkflowEdge (lines 191-207): id = (number of edges stored) + 1,
\* label: edge.label || null
createWorkflowEdge(workflowId, edge) ==
    LET workflowEdges == IF workflowId \in DOMAIN edges THEN edges[workflowId] ELSE <<>>
    IN (workflowId :> Append(workflowEdges,
            [id |-> Len(workflowEdges) + 1, sourceId |-> edge.sourceId,
             targetId |-> edge.targetId, label |-> edge.label])) @@ edges

\* deleteWorkflowEdge (lines 209-217)
deleteWorkflowEdge(id) ==
    [w \in DOMAIN edges |-> SelectSeq(edges[w], LAMBDA x : x.id # id)]

\* Map.delete(id)
MapDelete(map, id) == [k \in DOMAIN map \ {id} |-> map[k]]

\* `execution` of a run on which executeWorkflow has not been called
NoExecution ==
    [id |-> 0, workflowId |-> 0, status |-> NULL, startTime |-> 0, endTime |-> 0,
     error |-> NoError, outputs |-> <<>>, updates |-> 0]

\* createExecution: id = executions.size + 1
createExecution(execs, workflowId) ==
    Append(execs, [id |-> Len(execs) + 1, workflowId |-> workflowId, status |-> "running",
                   startTime |-> now, endTime |-> 0, error |-> NoError, outputs |-> <<>>,
                   updates |-> 0])

\* { ...record, ...updates }
Merge(record, updates) ==
    [f \in DOMAIN record |-> IF f \in DOMAIN updates THEN updates[f] ELSE record[f]]

\* updateExecution: { ...execution, ...updates }; `updates` counts the calls
updateExecution(execs, id, updates) ==
    [execs EXCEPT ![id] = [Merge(@, updates) EXCEPT !.updates = @ + 1]]

\* position of the list of run executionId in the Map, 0 when the run has none
RECURSIVE EntryOf(_, _, _)
EntryOf(se, executionId, i) ==
    IF i > Len(se) THEN 0
    ELSE IF se[i].executionId = executionId THEN i
    ELSE EntryOf(se, executionId, i + 1)

\* getStepExecutions
getStepExecutions(executionId) ==
    LET i == EntryOf(stepExecutions, executionId, 1)
    IN IF i = 0 THEN <<>> ELSE stepExecutions[i].list

\* createStepExecution: id = (number of step executions of that run) + 1
NewStepExecutionId(se, executionId) ==
    LET i == EntryOf(se, executionId, 1)
    IN IF i = 0 THEN 1 ELSE Len(se[i].list) + 1

createStepExecution(se, executionId, stepId, input) ==
    LET i == EntryOf(se, executionId, 1)
        rec == [id |-> NewStepExecutionId(se, executionId), workflowExecutionId |-> executionId,
                stepId |-> stepId, status |-> "running", startTime |-> now, endTime |-> 0,
                error |-> NoError, input |-> input, output |-> EmptyObject, history |-> <<"running">>]
    IN IF i = 0 THEN Append(se, [executionId |-> executionId, list |-> <<rec>>])
       ELSE [se EXCEPT ![i].list = Append(@, rec)]

\* updateStepExecution: the first list, in Map order, holding an entry with
\* that id is the one updated
RECURSIVE FirstListWith(_, _, _)
FirstListWith(se, id, i) ==
    IF i > Len(se) THEN 0
    ELSE IF \E j \in 1..Len(se[i].list) : se[i].list[j].id = id THEN i
    ELSE FirstListWith(se, id, i + 1)

updateStepExecution(se, id, updates) ==
    LET i == FirstListWith(se, id, 1)
        j == CHOOSE k \in 1..Len(se[i].list) :
                 /\ se[i].list[k].id = id
                 /\ \A m \in 1..(k - 1) : se[i].list[m].id # id
    IN [se EXCEPT ![i].list[j] = [Merge(@, updates) EXCEPT !.history = Append(@, updates.status)]]

\* ----------------------------------------------------------------- engine
Range(seq) == {seq[i] : i \in 1..Len(seq)}

\* obj[key], undefined when the key is absent
Lookup(obj, key) == IF key \in DOMAIN obj THEN obj[key] ELSE Undefined

\* obj[key] = value
Put(obj, key, value) == (key :> value) @@ obj

\* array.pop()
PopLast(seq) == IF seq = <<>> THEN <<>> ELSE SubSeq(seq, 1, Len(seq) - 1)

RECURSIVE MapTargets(_)
MapTargets(es) ==
    IF es = <<>> THEN <<>> ELSE <<toString(Head(es).targetId)>> \o MapTargets(Tail(es))

\* edges.filter(e => e.sourceId.toString() === nodeId)
OutgoingEdges(workflowId, nodeId) ==
    SelectSeq(getWorkflowEdges(workflowId), LAMBDA e : toString(e.sourceId) = nodeId)

\* caseEdges.find(e => e.label === label), as a list of at most one edge
FindLabel(es, label) ==
    LET m == SelectSeq(es, LAMBDA e : e.label = label)
    IN IF m = <<>> THEN <<>> ELSE <<Head(m)>>

NoStep == [id |-> 0, type |-> "", config |-> "", n |-> 0]

\* a call executeNode(nodeId, context) that has not yet run
NewFrame(nodeId, ctx) ==
    [nodeId |-> nodeId, ctx |-> ctx, pc |-> "entry", node |-> NoStep, se |-> 0,
     result |-> Undefined, todo |-> <<>>, items |-> <<>>, cedges |-> <<>>, acc |-> <<>>,
     loopResult |-> <<>>, ictx |-> 0, inItem |-> FALSE, waiting |-> FALSE]

Top(r) == stack[r][Len(stack[r])]
Running(r) == pc[r] = "running" /\ stack[r] # <<>>
WorkflowOf(r) == executions[execution[r].id].workflowId

\* evaluateCondition: Boolean(config.condition), false when it throws
evaluateCondition(node) == node.config = "true"

\* evaluateSwitchExpression: the value of config.expression, null when it throws
evaluateSwitchExpression(node) == IF node.config = "null" THEN JsNull ELSE [t |-> "string", v |-> node.config]

\* case "code": new Function("inputs", "context", config.code)(...)
CodeThrows(node) == node.config = "throw"
CodeResult(node, outputs, rnd) ==
    IF node.config = "items" THEN Arr(NumsUpTo(node.n))
    ELSE IF node.config = "random"
    THEN [t |-> "object", v |-> <<IF rnd THEN "true" ELSE "false">>]
    ELSE LET cur == Lookup(outputs, "currentItem")
         IN IF cur.t = "number" THEN Num(cur.v * 2) ELSE NaN

\* case "loop": context.outputs[configInput] || []
LoopItems(node, outputs) ==
    LET x == Lookup(outputs, node.config) IN IF Truthy(x) THEN x ELSE Arr(<<>>)

\* nodes.find(node => ...): the trigger node matching the trigger type
\* (lines 179-191), as a list of at most one step
TriggerNode(ss, trigger) ==
    LET m == SelectSeq(ss, LAMBDA n :
                CASE trigger.type = "webhook" -> n.type = "webhook_trigger"
                  [] trigger.type = "app_event" ->
                        n.type = "app_event_trigger" /\ n.config = trigger.eventType
                  [] trigger.type = "workflow" -> n.type = "workflow_trigger"
                  [] OTHER -> FALSE)
    IN IF m = <<>> THEN <<>> ELSE <<Head(m)>>

\* the outputs of the trigger are merged in whatever the trigger's type
initialOutputs_MergeAlways(ss, trigger) ==
    IF trigger = NoTrigger THEN <<>>
    ELSE LET node == TriggerNode(ss, trigger)
             seeded == IF node = <<>> THEN <<>>
                       ELSE (toString(Head(node).id) :> SeededOutput(trigger))
         IN trigger.outputs @@ seeded

\* initialOutputs (lines 172-206): the entry of the trigger node, then
\* Object.assign(initialOutputs, trigger.outputs) for a workflow trigger
initialOutputs(ss, trigger) ==
    IF trigger = NoTrigger THEN <<>>
    ELSE LET node == TriggerNode(ss, trigger)
             seeded == IF node = <<>> THEN <<>>
                       ELSE (toString(Head(node).id) :> SeededOutput(trigger))
         IN IF trigger.type = "workflow" THEN trigger.outputs @@ seeded ELSE seeded

\* the run is awaiting the response of executeAINode (line 300)
Suspended(r) == pc[r] = "running" /\ stack[r] # <<>> /\ stack[r][Len(stack[r])].pc = "ai"

\* the run holds the thread: every await other than the one on executeAINode
\* resolves in the microtask queue, which drains before the next request or
\* response is read
Busy(r) == pc[r] = "running" /\ ~ Suspended(r)

\* the Map `graph` (lines 143-165): for each source the targets of its edges
\* with their labels, in the order of the edges
BuildGraph(es) ==
    [src \in {toString(es[i].sourceId) : i \in 1..Len(es)} |->
        LET out == SelectSeq(es, LAMBDA e : toString(e.sourceId) = src)
        IN [i \in 1..Len(out) |-> [targetId |-> toString(out[i].targetId), label |-> out[i].label]]]

\* only the first step without incoming edge is a start node
StartNodes_First(ss, es) ==
    LET start == SelectSeq(ss, LAMBDA n : ~ \E i \in 1..Len(es) : es[i].targetId = n.id)
    IN SubSeq(start, 1, 1)

\* nodes.filter(node => !edges.some(edge => edge.targetId.toString() ===
\* node.id)) (lines 167-170)
StartNodes(ss, es) ==
    SelectSeq(ss, LAMBDA n : ~ \E i \in 1..Len(es) : es[i].targetId = n.id)

\* executeWorkflow(workflow, {trigger}) up to the loop over the start nodes
\* (lines 116-215)
StartRun(r, trigger) ==
    /\ LET ss == getWorkflowSteps(WorkflowId)
           es == getWorkflowEdges(WorkflowId)
           start == StartNodes(ss, es)
       IN /\ executions' = createExecution(executions, WorkflowId)
          /\ execution' = [execution EXCEPT ![r] = Last(createExecution(executions, WorkflowId))]
          /\ startNodes' = [startNodes EXCEPT ![r] = [i \in 1..Len(start) |-> toString(start[i].id)]]
          /\ graph' = [graph EXCEPT ![r] = BuildGraph(es)]
    /\ contexts' = [contexts EXCEPT ![r] =
            <<[outputs |-> initialOutputs(getWorkflowSteps(WorkflowId), trigger),
               currentPath |-> <<>>, parent |-> 0]>>]
    /\ visited' = [visited EXCEPT ![r] = {}]
    /\ pc' = [pc EXCEPT ![r] = "running"]
    /\ now' = now + 1
    /\ UNCHANGED <<storeVars, stepExecutions, stack, thrown, ret, calls, handled>>

\* POST /api/workflows/:id/execute (lines 48-54), or another caller of
\* executeWorkflow.  Requests are numbered in the order they are served.
executeWorkflowStart(r) ==
    /\ pc[r] = "idle"
    /\ \A q \in RunIds : (q < r => pc[q] # "idle") /\ ~ Busy(q)
    /\ WorkflowId \in DOMAIN workflows
    /\ StartRun(r, triggerData[r])
    /\ UNCHANGED requestVars

\* for (const node of startNodes) await executeNode(node.id, context)
RunStartNode(r) ==
    /\ pc[r] = "running" /\ stack[r] = <<>> /\ thrown[r] = NoError
    /\ startNodes[r] # <<>>
    /\ stack' = [stack EXCEPT ![r] = <<NewFrame(Head(startNodes[r]), 1)>>]
    /\ calls' = [calls EXCEPT ![r] = Append(@, [from |-> "", to |-> Head(startNodes[r]), ctx |-> 1,
                                                   again |-> Head(startNodes[r]) \in Range(handled[r])])]
    /\ startNodes' = [startNodes EXCEPT ![r] = Tail(@)]
    /\ UNCHANGED <<storeVars, requestVars, graph, executions, stepExecutions, now, pc, execution, contexts,
                   visited, thrown, ret, handled>>

\* executeWorkflow returns without the completed update
CompleteRun_NoUpdate(r) ==
    /\ pc[r] = "running" /\ stack[r] = <<>> /\ thrown[r] = NoError
    /\ startNodes[r] = <<>>
    /\ pc' = [pc EXCEPT ![r] = "returned"]
    /\ UNCHANGED <<storeVars, requestVars, graph, executions, stepExecutions, now, execution, startNodes,
                   contexts, visited, stack, thrown, ret, calls, handled>>

\* updateExecution(completed) and return (lines 222-229)
CompleteRun(r) ==
    /\ pc[r] = "running" /\ stack[r] = <<>> /\ thrown[r] = NoError
    /\ startNodes[r] = <<>>
    /\ executions' = updateExecution(executions, execution[r].id,
            [status |-> "completed", endTime |-> now, outputs |-> contexts[r][1].outputs])
    /\ pc' = [pc EXCEPT ![r] = "returned"]
    /\ now' = now + 1
    /\ UNCHANGED <<storeVars, requestVars, graph, stepExecutions, execution, startNodes, contexts, visited,
                   stack, thrown, ret, calls, handled>>

\* the catch block records the failure but does not rethrow: control falls
\* through to the code after the try
\* the catch block also persists the outputs committed so far
FailRun_WithOutputs(r) ==
    /\ pc[r] = "running" /\ stack[r] = <<>> /\ thrown[r] # NoError
    /\ executions' = updateExecution(executions, execution[r].id,
            [status |-> "failed", endTime |-> now, error |-> thrown[r],
             outputs |-> contexts[r][1].outputs])
    /\ pc' = [pc EXCEPT ![r] = "threw"]
    /\ now' = now + 1
    /\ UNCHANGED <<storeVars, requestVars, graph, stepExecutions, execution, startNodes, contexts, visited,
                   stack, thrown, ret, calls, handled>>

FailRun_FallsThrough(r) ==
    /\ pc[r] = "running" /\ stack[r] = <<>> /\ thrown[r] # NoError
    /\ executions' = updateExecution(executions, execution[r].id,
            [status |-> "failed", endTime |-> now, error |-> thrown[r]])
    /\ thrown' = [thrown EXCEPT ![r] = NoError]
    /\ startNodes' = [startNodes EXCEPT ![r] = <<>>]
    /\ now' = now + 1
    /\ UNCHANGED <<storeVars, requestVars, graph, stepExecutions, pc, execution, contexts, visited,
                   stack, ret, calls, handled>>

\* catch: updateExecution(failed) and rethrow (lines 231-239)
FailRun(r) ==
    /\ pc[r] = "running" /\ stack[r] = <<>> /\ thrown[r] # NoError
    /\ executions' = updateExecution(executions, execution[r].id,
            [status |-> "failed", endTime |-> now, error |-> thrown[r]])
    /\ pc' = [pc EXCEPT ![r] = "threw"]
    /\ now' = now + 1
    /\ UNCHANGED <<storeVars, requestVars, graph, stepExecutions, execution, startNodes, contexts, visited,
                   stack, thrown, ret, calls, handled>>

SetTop(r, f) == [stack EXCEPT ![r] = [@ EXCEPT ![Len(@)] = f]]
PopFrame(r) == [stack EXCEPT ![r] = PopLast(@)]
PushFrame(r, f, child) == [stack EXCEPT ![r] = Append([@ EXCEPT ![Len(@)] = f], child)]

\* every context of the run shares one outputs object: the result shows in all
CommitContext_Shared(r, f, result, path) ==
    [contexts EXCEPT ![r] =
        [k \in 1..Len(@) |->
            [@[k] EXCEPT !.outputs = (f.nodeId :> result) @@ @,
                         !.currentPath = IF k = f.ctx THEN SubSeq(path, 1, Len(path) - 1) ELSE @]]]

\* context.outputs[nodeId] = result; context.currentPath.pop() (lines 427, 431),
\* `path` being context.currentPath before the pop
CommitContext(r, f, result, path) ==
    [contexts EXCEPT ![r][f.ctx] =
        [@ EXCEPT !.outputs = Put(@, f.nodeId, result), !.currentPath = PopLast(path)]]

\* the step is not recorded as visited
MarkVisited_Skipped(r, nodeId) == visited

\* context.visited.add(nodeId) (line 428)
MarkVisited(r, nodeId) == [visited EXCEPT ![r] = @ \cup {nodeId}]

\* updateStepExecution(stepExecution.id, {status: "completed", ...}) (line 434)
MarkCompleted(r, f, result) ==
    updateStepExecution(stepExecutions, f.se,
        [status |-> "completed", endTime |-> now, output |-> result])

\* updateStepExecution(stepExecution.id, {status: "failed", ...}) (line 453)
MarkFailed(r, f, err) ==
    updateStepExecution(stepExecutions, f.se,
        [status |-> "failed", endTime |-> now, error |-> err])

\* getNodeInputs (lines 468-476): inputs._all = context.outputs, and no other
\* key.  The value is the outputs object of the context itself, held here as
\* the number of the context.
getNodeInputs(nodeId, ctx) == [all |-> ctx]

\* executeNode, lines 243-277: the visited check, the step lookup and the
\* creation of the StepExecution
EnterNode(r) ==
    /\ Running(r) /\ thrown[r] = NoError
    /\ Top(r).pc = "entry"
    /\ LET f == Top(r)
           ss == getWorkflowSteps(WorkflowOf(r))
           found == SelectSeq(ss, LAMBDA x : toString(x.id) = f.nodeId)
       IN IF f.nodeId \in visited[r]
          THEN /\ ret' = [ret EXCEPT ![r] = Lookup(contexts[r][f.ctx].outputs, f.nodeId)]
               /\ stack' = PopFrame(r)
               /\ UNCHANGED <<stepExecutions, now>>
          ELSE IF found = <<>>
          THEN /\ ret' = [ret EXCEPT ![r] = JsNull]
               /\ stack' = PopFrame(r)
               /\ UNCHANGED <<stepExecutions, now>>
          ELSE /\ stepExecutions' = createStepExecution(stepExecutions, execution[r].id,
                                        Head(found).id, getNodeInputs(f.nodeId, f.ctx))
               /\ stack' = SetTop(r, [f EXCEPT !.pc = "body", !.node = Head(found),
                                               !.se = NewStepExecutionId(stepExecutions, execution[r].id)])
               /\ now' = now + 1
               /\ UNCHANGED ret
    /\ UNCHANGED <<storeVars, requestVars, graph, executions, pc, execution, startNodes, contexts, visited,
                   thrown, calls, handled>>

\* every outgoing edge is taken, whatever the condition
nextEdges_All(out, condition) == out

\* outgoingEdges.filter(e => (condition && e.label === "true") ||
\*                           (!condition && e.label === "false")) (lines 323-325)
nextEdges(out, condition) ==
    SelectSeq(out, LAMBDA e : (condition /\ e.label = "true") \/ (~ condition /\ e.label = "false"))

\* What the try block does from the cycle check to the end of the switch arm
\* (lines 279-424) for the call f in context c
BodyStep(f, c, workflowId, rnd) ==
    LET out == OutgoingEdges(workflowId, f.nodeId)
        raise(err) == [k |-> "raise", err |-> err, entered |-> TRUE]
        commit(result) == [k |-> "commit", result |-> result, entered |-> TRUE]
    IN IF f.nodeId \in Range(c.currentPath)
       THEN [k |-> "raise", err |-> CycleError(c.currentPath, f.nodeId), entered |-> FALSE]
       ELSE CASE f.node.type = "code" ->
                    IF CodeThrows(f.node) THEN raise(UserError)
                    ELSE commit(CodeResult(f.node, c.outputs, rnd))
              [] f.node.type = "condition" ->
                    LET condition == evaluateCondition(f.node)
                    IN [k |-> "branch", result |-> CondResult(condition), entered |-> TRUE,
                        todo |-> MapTargets(nextEdges(out, condition))]
              [] f.node.type = "switch" ->
                    LET switchValue == evaluateSwitchExpression(f.node)
                    IN IF switchValue.t = "null" THEN raise(NullToStringError)
                       ELSE LET matching == FindLabel(out, switchValue.v)
                                matchingEdge == IF matching # <<>> THEN matching
                                                ELSE FindLabel(out, "default")
                            IN [k |-> "branch", result |-> SwitchResult(switchValue.v),
                                entered |-> TRUE, todo |-> MapTargets(matchingEdge)]
              [] f.node.type = "loop" ->
                    LET items == LoopItems(f.node, c.outputs)
                    IN IF ~ IsArray(items) THEN raise(LoopInputError)
                       ELSE [k |-> "loop", items |-> items.v, entered |-> TRUE,
                             cedges |-> MapTargets(out)]
              [] f.node.type = "basic_llm_chain" -> [k |-> "await", entered |-> TRUE]
              [] OTHER -> commit(Triggered)

\* executeNode, lines 279-438: the cycle check, the push on currentPath and
\* the handler of the step's kind.  A step that is not a condition, switch or
\* loop commits its result at once; an error goes to the catch block.  rnd
\* is what Math.random() > 0.5 yields if the code of the step asks for it.
ExecuteBody(r) ==
    /\ Running(r) /\ thrown[r] = NoError
    /\ Top(r).pc = "body"
    /\ \E rnd \in BOOLEAN :
       LET f == Top(r)
           c == contexts[r][f.ctx]
           wf == WorkflowOf(r)
           o == BodyStep(f, c, wf, rnd)
           pushed == IF o.entered THEN Append(c.currentPath, f.nodeId) ELSE c.currentPath
       IN /\ handled' = [handled EXCEPT ![r] = IF o.entered THEN Append(@, f.nodeId) ELSE @]
          /\ CASE o.k = "raise" ->
                    /\ thrown' = [thrown EXCEPT ![r] = o.err]
                    /\ stepExecutions' = MarkFailed(r, f, o.err)
                    /\ contexts' = [contexts EXCEPT ![r][f.ctx].currentPath = PopLast(pushed)]
                    /\ stack' = SetTop(r, [f EXCEPT !.pc = "rethrow"])
                    /\ now' = now + 1
                    /\ UNCHANGED visited
               [] o.k = "commit" ->
                    /\ contexts' = CommitContext(r, f, o.result, pushed)
                    /\ visited' = MarkVisited(r, f.nodeId)
                    /\ stepExecutions' = MarkCompleted(r, f, o.result)
                    /\ stack' = SetTop(r, [f EXCEPT !.pc = "children", !.result = o.result,
                                                    !.todo = MapTargets(OutgoingEdges(wf, f.nodeId))])
                    /\ now' = now + 1
                    /\ UNCHANGED thrown
               [] o.k = "branch" ->
                    /\ contexts' = [contexts EXCEPT ![r][f.ctx].currentPath = pushed]
                    /\ stack' = SetTop(r, [f EXCEPT !.pc = "branch", !.result = o.result,
                                                    !.todo = o.todo])
                    /\ UNCHANGED <<visited, stepExecutions, thrown, now>>
               [] o.k = "loop" ->
                    /\ contexts' = [contexts EXCEPT ![r][f.ctx].currentPath = pushed]
                    /\ stack' = SetTop(r, [f EXCEPT !.pc = "loop", !.items = o.items,
                                                    !.cedges = o.cedges])
                    /\ UNCHANGED <<visited, stepExecutions, thrown, now>>
               [] o.k = "await" ->
                    /\ contexts' = [contexts EXCEPT ![r][f.ctx].currentPath = pushed]
                    /\ stack' = SetTop(r, [f EXCEPT !.pc = "ai"])
                    /\ UNCHANGED <<visited, stepExecutions, thrown, now>>
    /\ UNCHANGED <<storeVars, requestVars, graph, executions, pc, execution, startNodes, ret, calls>>

\* result = await executeAINode(node, ...) (lines 291-304) settles: the call
\* is to the AI provider, outside this program, and either yields a text or
\* rejects.  The run goes on when no other run holds the thread.
ResumeAI(r) ==
    /\ Suspended(r) /\ thrown[r] = NoError
    /\ \A q \in RunIds : ~ Busy(q)
    /\ LET f == Top(r)
           c == contexts[r][f.ctx]
           result == [t |-> "string", v |-> "text"]
       IN \E ok \in BOOLEAN :
            IF ok
            THEN /\ contexts' = CommitContext(r, f, result, c.currentPath)
                 /\ visited' = MarkVisited(r, f.nodeId)
                 /\ stepExecutions' = MarkCompleted(r, f, result)
                 /\ stack' = SetTop(r, [f EXCEPT !.pc = "children", !.result = result,
                                 !.todo = MapTargets(OutgoingEdges(WorkflowOf(r), f.nodeId))])
                 /\ UNCHANGED thrown
            ELSE /\ thrown' = [thrown EXCEPT ![r] = AIError]
                 /\ stepExecutions' = MarkFailed(r, f, AIError)
                 /\ contexts' = [contexts EXCEPT ![r][f.ctx].currentPath = PopLast(c.currentPath)]
                 /\ stack' = SetTop(r, [f EXCEPT !.pc = "rethrow"])
                 /\ UNCHANGED visited
    /\ now' = now + 1
    /\ UNCHANGED <<storeVars, requestVars, graph, executions, pc, execution, startNodes, ret, calls,
                   handled>>

\* await executeNode(edge.targetId.toString(), context): the next child of a
\* condition or switch (lines 328-330, 347-349) or of a committed step
\* (lines 445-447)
DispatchChild(r) ==
    /\ Running(r) /\ thrown[r] = NoError
    /\ Top(r).pc \in {"branch", "children"}
    /\ Top(r).todo # <<>>
    /\ LET f == Top(r)
       IN /\ stack' = PushFrame(r, [f EXCEPT !.todo = Tail(@)], NewFrame(Head(f.todo), f.ctx))
          /\ calls' = [calls EXCEPT ![r] = Append(@, [from |-> f.nodeId, to |-> Head(f.todo), ctx |-> f.ctx,
                                                       again |-> Head(f.todo) \in Range(handled[r])])]
    /\ UNCHANGED <<storeVars, requestVars, graph, executions, stepExecutions, now, pc, execution, startNodes,
                   contexts, visited, thrown, ret, handled>>

\* a condition or switch whose selected children have returned commits its
\* result (lines 426-438)
CommitBranch(r) ==
    /\ Running(r) /\ thrown[r] = NoError
    /\ Top(r).pc = "branch"
    /\ Top(r).todo = <<>>
    /\ LET f == Top(r)
       IN /\ contexts' = CommitContext(r, f, f.result, contexts[r][f.ctx].currentPath)
          /\ visited' = MarkVisited(r, f.nodeId)
          /\ stepExecutions' = MarkCompleted(r, f, f.result)
          /\ stack' = SetTop(r, [f EXCEPT !.pc = "children"])
    /\ now' = now + 1
    /\ UNCHANGED <<storeVars, requestVars, graph, executions, pc, execution, startNodes, thrown, ret, calls, handled>>

\* return result (line 450)
ReturnNode(r) ==
    /\ Running(r) /\ thrown[r] = NoError
    /\ Top(r).pc = "children"
    /\ Top(r).todo = <<>>
    /\ ret' = [ret EXCEPT ![r] = Top(r).result]
    /\ stack' = PopFrame(r)
    /\ UNCHANGED <<storeVars, requestVars, graph, executions, stepExecutions, now, pc, execution, startNodes,
                   contexts, visited, thrown, calls, handled>>

\* catch block entered by an error thrown by a child call (lines 451-460)
CatchChildError(r) ==
    /\ Running(r) /\ thrown[r] # NoError
    /\ Top(r).pc \in {"branch", "children", "loop"}
    /\ LET f == Top(r)
       IN /\ stepExecutions' = MarkFailed(r, f, thrown[r])
          /\ contexts' = [contexts EXCEPT ![r][f.ctx].currentPath = PopLast(@)]
          /\ stack' = SetTop(r, [f EXCEPT !.pc = "rethrow"])
    /\ now' = now + 1
    /\ UNCHANGED <<storeVars, requestVars, graph, executions, pc, execution, startNodes, visited, thrown, ret,
                   calls, handled>>

\* throw error (line 462)
Rethrow(r) ==
    /\ Running(r) /\ thrown[r] # NoError
    /\ Top(r).pc = "rethrow"
    /\ stack' = PopFrame(r)
    /\ UNCHANGED <<storeVars, requestVars, graph, executions, stepExecutions, now, pc, execution, startNodes,
                   contexts, visited, thrown, ret, calls, handled>>

\* case "loop", lines 370-378: the next item gets a new iteration context
\* { ...context, outputs: { ...context.outputs, currentItem: item },
\*   currentPath: [...context.currentPath] }; visited is the same Set.
\* The results of the item before it are pushed on result (line 386).
LoopNextItem(r) ==
    /\ Running(r) /\ thrown[r] = NoError
    /\ Top(r).pc = "loop" /\ ~ Top(r).waiting
    /\ Top(r).todo = <<>> /\ Top(r).items # <<>>
    /\ LET f == Top(r)
           c == contexts[r][f.ctx]
           iterationContext == [outputs |-> Put(c.outputs, "currentItem", Head(f.items)),
                                currentPath |-> c.currentPath, parent |-> f.ctx]
       IN /\ contexts' = [contexts EXCEPT ![r] = Append(@, iterationContext)]
          /\ stack' = SetTop(r, [f EXCEPT !.items = Tail(@), !.todo = f.cedges, !.acc = <<>>,
                                          !.ictx = Len(contexts[r]) + 1, !.inItem = TRUE,
                                          !.loopResult = IF f.inItem THEN Append(@, Arr(f.acc)) ELSE @])
    /\ UNCHANGED <<storeVars, requestVars, graph, executions, stepExecutions, now, pc, execution, startNodes,
                   visited, thrown, ret, calls, handled>>

\* const childResult = await executeNode(edge.targetId.toString(), iterationContext)
LoopDispatchChild(r) ==
    /\ Running(r) /\ thrown[r] = NoError
    /\ Top(r).pc = "loop" /\ ~ Top(r).waiting
    /\ Top(r).todo # <<>>
    /\ LET f == Top(r)
       IN /\ stack' = PushFrame(r, [f EXCEPT !.todo = Tail(@), !.waiting = TRUE],
                                NewFrame(Head(f.todo), f.ictx))
          /\ calls' = [calls EXCEPT ![r] = Append(@, [from |-> f.nodeId, to |-> Head(f.todo), ctx |-> f.ictx,
                                                       again |-> Head(f.todo) \in Range(handled[r])])]
    /\ UNCHANGED <<storeVars, requestVars, graph, executions, stepExecutions, now, pc, execution, startNodes,
                   contexts, visited, thrown, ret, handled>>

\* itemResults.push(childResult)
LoopCollect(r) ==
    /\ Running(r) /\ thrown[r] = NoError
    /\ Top(r).pc = "loop" /\ Top(r).waiting
    /\ stack' = SetTop(r, [Top(r) EXCEPT !.acc = Append(@, ret[r]), !.waiting = FALSE])
    /\ UNCHANGED <<storeVars, requestVars, graph, executions, stepExecutions, now, pc, execution, startNodes,
                   contexts, visited, thrown, ret, calls, handled>>

\* the loop over the items has ended: the loop step commits its result
\* (lines 386-388, 426-438)
LoopEnd(r) ==
    /\ Running(r) /\ thrown[r] = NoError
    /\ Top(r).pc = "loop" /\ ~ Top(r).waiting
    /\ Top(r).todo = <<>> /\ Top(r).items = <<>>
    /\ LET f == Top(r)
           result == Arr(IF f.inItem THEN Append(f.loopResult, Arr(f.acc)) ELSE f.loopResult)
       IN /\ contexts' = CommitContext(r, f, result, contexts[r][f.ctx].currentPath)
          /\ visited' = MarkVisited(r, f.nodeId)
          /\ stepExecutions' = MarkCompleted(r, f, result)
          /\ stack' = SetTop(r, [f EXCEPT !.pc = "children", !.result = result])
    /\ now' = now + 1
    /\ UNCHANGED <<storeVars, requestVars, graph, executions, pc, execution, startNodes, thrown, ret, calls, handled>>

\* -------------------------------------------------------------- routes
\* insertWorkflowSchema.partial().safeParse(req.body) (line 33): the schema
\* has the columns of the workflows table (name, description, isActive);
\* keys it does not know, steps and edges among them, are stripped
ParseWorkflow(body) == [name |-> body.name, graph |-> NoGraph]

\* the bodies sent: a new name, alone or with a graph of two steps joined by
\* a labelled edge
SentGraph ==
    [present |-> TRUE, hasSteps |-> TRUE, hasEdges |-> TRUE,
     steps |-> <<[type |-> "condition", config |-> "true", n |-> 0],
                 [type |-> "manual_trigger", config |-> "", n |-> 0]>>,
     edges |-> <<[sourceId |-> 1, targetId |-> 2, label |-> "true"]>>]

PatchBodies == {[name |-> "renamed", graph |-> g] : g \in {NoGraph, SentGraph}}

\* PATCH /api/workflows/:id (lines 29-40)
PatchWorkflow ==
    /\ Len(patches) < MaxPatches
    /\ \A q \in RunIds : ~ Busy(q)
    /\ WorkflowId \in DOMAIN workflows
    /\ \E body \in PatchBodies :
          LET parsed == ParseWorkflow(body)
          IN /\ workflows' = updateWorkflowRecord(WorkflowId, parsed)
             /\ steps' = updateWorkflowSteps(WorkflowId, parsed)
             /\ edges' = updateWorkflowEdges(WorkflowId, parsed)
             /\ patches' = Append(patches, body)
    /\ UNCHANGED <<triggerData, cancelled, responses, resolverCall, legacy, graph, executions,
                   stepExecutions, now, pc, execution, startNodes, contexts, visited, stack,
                   thrown, ret, calls, handled>>

\* GET /api/workflows/:id (lines 14-18): the stored record
GetWorkflow(id) == workflows[id]

\* DELETE /api/workflows/:id (lines 42-45) and deleteWorkflow (lines 130-134)
DeleteWorkflow ==
    /\ \A q \in RunIds : ~ Busy(q)
    /\ WorkflowId \in DOMAIN workflows
    /\ workflows' = MapDelete(workflows, WorkflowId)
    /\ steps' = MapDelete(steps, WorkflowId)
    /\ edges' = MapDelete(edges, WorkflowId)
    /\ UNCHANGED <<requestVars, graph, executions, stepExecutions, now, pc, execution,
                   startNodes, contexts, visited, stack, thrown, ret, calls, handled>>

\* the cancellation signal of run r is raised, by a request served while the
\* run awaits the AI provider.  ExecutionContext (lines 91-97) has no field
\* for the signal and neither executeWorkflow nor executeNode reads one.
CancelRun(r) ==
    /\ Suspended(r) /\ ~ cancelled[r]
    /\ \A q \in RunIds : ~ Busy(q)
    /\ cancelled' = [cancelled EXCEPT ![r] = TRUE]
    /\ UNCHANGED <<storeVars, triggerData, patches, responses, resolverCall, legacy, graph, executions,
                   stepExecutions, now, pc, execution, startNodes, contexts, visited, stack,
                   thrown, ret, calls, handled>>

\* ------------------------------------------------------ webhook endpoint
\* POST /api/webhooks/{webhookId}.  The route is not among the sources at
\* hand; it is written from the trigger gateway's contract: the workflow is
\* the one holding the webhook_trigger step of that webhookId (404 when no
\* such step); when the step has a secret the request must carry the header
\* X-Webhook-Signature equal to HMAC-SHA256(secret, raw body) in hex (401
\* otherwise); the run is started and 202 {executionId} is returned without
\* awaiting the run.  The secret of a webhook_trigger step is its config,
\* "" when it has none.

\* a raw body is a sequence of bytes, a key too
WebhookBodies == [1..2 -> {0, 1}]
KeyBytes(secret) == IF secret = "k" THEN <<3, 5>> ELSE <<4, 5>>

\* the digest of msg under key, in hex digits.  HMAC-SHA256 is stood for by
\* a keyed checksum of one byte that has no collision among the bodies sent.
RECURSIVE Absorb(_, _)
Absorb(h, bytes) ==
    IF bytes = <<>> THEN h ELSE Absorb((h * 31 + Head(bytes) + 1) % 256, Tail(bytes))

HmacHex(secret, body) ==
    LET h == Absorb(7, KeyBytes(secret) \o body) IN <<h \div 16, h % 16>>

NoSignature == [present |-> FALSE, hex |-> <<>>]
Signature(hex) == [present |-> TRUE, hex |-> hex]

\* the digest with its last digit changed
Tampered(hex) == [hex EXCEPT ![Len(hex)] = (@ + 1) % 16]

\* the headers sent: none, the digest of a body under the step's secret or
\* under another key, and such a digest with one digit changed
SignaturesSent ==
    {NoSignature}
    \cup {Signature(HmacHex(k, b)) : k \in {"k", "other"}, b \in WebhookBodies}
    \cup {Signature(Tampered(HmacHex("k", b))) : b \in WebhookBodies}

\* only the first digit of the digest is compared
SignatureValid_FirstDigit(secret, body, signature) ==
    signature.present /\ signature.hex[1] = HmacHex(secret, body)[1]

\* signature check of a step with a secret
SignatureValid(secret, body, signature) ==
    signature.present /\ signature.hex = HmacHex(secret, body)

\* the payload handed to the run: the body as parsed
PayloadOf(body) == "body" \o <<"0", "1">>[body[1] + 1] \o <<"0", "1">>[body[2] + 1]

WebhookStep(ss) ==
    LET m == SelectSeq(ss, LAMBDA n : n.type = "webhook_trigger")
    IN IF m = <<>> THEN <<>> ELSE <<Head(m)>>

Response(status, executionId, body, signature) ==
    [status |-> status, executionId |-> executionId, body |-> body, signature |-> signature]

PostWebhook(r) ==
    /\ pc[r] = "idle"
    /\ \A q \in RunIds : (q < r => pc[q] # "idle") /\ ~ Busy(q)
    /\ \E body \in WebhookBodies, signature \in SignaturesSent :
          LET node == WebhookStep(getWorkflowSteps(WorkflowId))
              reject(status) ==
                  /\ responses' = <<Response(status, 0, body, signature)>>
                  /\ UNCHANGED <<storeVars, triggerData, patches, cancelled, resolverCall, legacy, graph,
                                 executions, stepExecutions, now, pc, execution, startNodes,
                                 contexts, visited, stack, thrown, ret, calls, handled>>
          IN IF node = <<>> THEN reject(404)
             ELSE IF Head(node).config # "" /\ ~ SignatureValid(Head(node).config, body, signature)
             THEN reject(401)
             ELSE LET trigger == [Trigger("webhook", NULL, <<>>) EXCEPT !.payload = PayloadOf(body)]
                  IN /\ StartRun(r, trigger)
                     /\ triggerData' = [triggerData EXCEPT ![r] = trigger]
                     /\ responses' = <<Response(202, Len(executions) + 1, body, signature)>>
                     /\ UNCHANGED <<patches, cancelled, resolverCall, legacy>>

\* ------------------------------------------------- calls on the store
\* a request handler calls storage.updateWorkflow(id, updates) with one of
\* the graphs G: updates holds the key steps, the key edges or both
UpdateWorkflowWith(G) ==
    /\ \A q \in RunIds : ~ Busy(q)
    /\ WorkflowId \in DOMAIN workflows
    /\ \E g \in G :
          LET updates == [name |-> workflows[WorkflowId].name, graph |-> g]
          IN /\ workflows' = updateWorkflowRecord(WorkflowId, updates)
             /\ steps' = updateWorkflowSteps(WorkflowId, updates)
             /\ edges' = updateWorkflowEdges(WorkflowId, updates)
    /\ UNCHANGED <<requestVars, graph, executions, stepExecutions, now, pc, execution,
                   startNodes, contexts, visited, stack, thrown, ret, calls, handled>>

PlainStep == [type |-> "manual_trigger", config |-> "", n |-> 0]
PlainEdge(s, t) == [sourceId |-> s, targetId |-> t, label |-> NULL]

\* the arrays sent: one step or three, one edge or two
StoreGraphs ==
    LET stepArrays == {<<PlainStep>>, <<PlainStep, PlainStep, PlainStep>>}
        edgeArrays == {<<PlainEdge(1, 2)>>, <<PlainEdge(1, 2), PlainEdge(2, 3)>>}
    IN {[present |-> TRUE, hasSteps |-> TRUE, hasEdges |-> FALSE, steps |-> ss, edges |-> <<>>] :
            ss \in stepArrays}
       \cup {[present |-> TRUE, hasSteps |-> FALSE, hasEdges |-> TRUE, steps |-> <<>>, edges |-> es] :
            es \in edgeArrays}
       \cup {[present |-> TRUE, hasSteps |-> TRUE, hasEdges |-> TRUE, steps |-> ss, edges |-> es] :
            ss \in stepArrays, es \in edgeArrays}

UpdateWorkflow == UpdateWorkflowWith(StoreGraphs)

storeUnchanged ==
    UNCHANGED <<workflows, requestVars, graph, executions, stepExecutions, now, pc, execution,
                startNodes, contexts, visited, stack, thrown, ret, calls, handled>>

\* storage.createWorkflowStep({workflowId, type, config})
CreateWorkflowStep ==
    /\ WorkflowId \in DOMAIN workflows
    /\ Len(getWorkflowSteps(WorkflowId)) < MaxStoreSteps
    /\ steps' = createWorkflowStep(WorkflowId, PlainStep)
    /\ UNCHANGED edges /\ storeUnchanged

\* storage.deleteWorkflowStep(id)
DeleteWorkflowStep ==
    /\ \E id \in 1..MaxStoreSteps : steps' = deleteWorkflowStep(id)
    /\ UNCHANGED edges /\ storeUnchanged

\* storage.createWorkflowEdge({workflowId, sourceId, targetId})
CreateWorkflowEdge ==
    /\ WorkflowId \in DOMAIN workflows
    /\ Len(getWorkflowEdges(WorkflowId)) < MaxStoreEdges
    /\ \E s, t \in 1..MaxStoreSteps : edges' = createWorkflowEdge(WorkflowId, PlainEdge(s, t))
    /\ UNCHANGED steps /\ storeUnchanged

\* storage.deleteWorkflowEdge(id)
DeleteWorkflowEdge ==
    /\ \E id \in 1..MaxStoreEdges : edges' = deleteWorkflowEdge(id)
    /\ UNCHANGED steps /\ storeUnchanged

\* -------------------------------------------------------- specification
\* the store and the runs before any request is served
InitEngine ==
    /\ workflows = (WorkflowId :> DefaultWorkflow)
    /\ patches = <<>>
    /\ executions = <<>>
    /\ stepExecutions = <<>>
    /\ now = 1
    /\ pc = [r \in RunIds |-> "idle"]
    /\ execution = [r \in RunIds |-> NoExecution]
    /\ startNodes = [r \in RunIds |-> <<>>]
    /\ contexts = [r \in RunIds |-> <<>>]
    /\ visited = [r \in RunIds |-> {}]
    /\ stack = [r \in RunIds |-> <<>>]
    /\ thrown = [r \in RunIds |-> NoError]
    /\ ret = [r \in RunIds |-> Undefined]
    /\ calls = [r \in RunIds |-> <<>>]
    /\ handled = [r \in RunIds |-> <<>>]
    /\ graph = [r \in RunIds |-> <<>>]
    /\ cancelled = [r \in RunIds |-> FALSE]
    /\ responses = <<>>

\* the runs POST /api/workflows/:id/execute starts: executeWorkflow(workflow),
\* without trigger data
Init ==
    /\ \E w \in Workflows :
          /\ steps = (WorkflowId :> w.steps)
          /\ edges = (WorkflowId :> w.edges)
    /\ triggerData = [r \in RunIds |-> NoTrigger]
    /\ resolverCall = NoCall
    /\ legacy = NoLegacy
    /\ InitEngine

Next ==
    \E r \in RunIds :
        \/ executeWorkflowStart(r)
        \/ RunStartNode(r)
        \/ CompleteRun(r)
        \/ FailRun(r)
        \/ EnterNode(r)
        \/ ExecuteBody(r)
        \/ DispatchChild(r)
        \/ CommitBranch(r)
        \/ ReturnNode(r)
        \/ CatchChildError(r)
        \/ Rethrow(r)
        \/ LoopNextItem(r)
        \/ LoopDispatchChild(r)
        \/ LoopCollect(r)
        \/ LoopEnd(r)

Spec == Init /\ [][Next]_vars

\* The server with its other callers: executeWorkflow called with trigger
\* data, AI steps, on which a run is suspended while other requests are
\* served, and the PATCH and DELETE routes.
ServerKinds == {
    <<[type |-> "webhook_trigger", config |-> "", n |-> 0],
      [type |-> "basic_llm_chain", config |-> "", n |-> 0],
      [type |-> "code", config |-> "double", n |-> 0]>>,
    <<[type |-> "workflow_trigger", config |-> "", n |-> 0],
      [type |-> "condition", config |-> "true", n |-> 0],
      [type |-> "code", config |-> "throw", n |-> 0]>>,
    <<ItemsStep,
      [type |-> "loop", config |-> "1", n |-> 0],
      [type |-> "basic_llm_chain", config |-> "", n |-> 0]>>,
    <<[type |-> "app_event_trigger", config |-> "e", n |-> 0],
      [type |-> "switch", config |-> "a", n |-> 0],
      [type |-> "manual_trigger", config |-> "", n |-> 0]>>
}

Chain == <<E(1, 2, "true", "a"), E(2, 3, "true", "a")>>

TriggerInputs ==
    {NoTrigger,
     Trigger("webhook", NULL, <<>>),
     Trigger("app_event", "e", <<>>),
     Trigger("workflow", NULL, ("1" :> Num(7))),
     Trigger("workflow", NULL, ("3" :> Num(7))),
     Trigger("manual", NULL, ("3" :> Num(7)))}

\* the chains, and a workflow with two trigger steps that join in step 3
ServerWorkflows ==
    {[kinds |-> k, shape |-> Chain] : k \in ServerKinds}
    \cup {[kinds |-> <<[type |-> "webhook_trigger", config |-> "", n |-> 0],
                       [type |-> "app_event_trigger", config |-> "e", n |-> 0],
                       [type |-> "code", config |-> "double", n |-> 0]>>,
           shape |-> <<E(1, 3, "true", "a"), E(2, 3, "true", "a")>>]}

InitServer ==
    /\ \E w \in ServerWorkflows :
          /\ steps = (WorkflowId :> MkSteps(w.kinds))
          /\ edges = (WorkflowId :> MkEdges(w.shape, w.kinds, 0))
    /\ triggerData \in [RunIds -> TriggerInputs]
    /\ resolverCall = NoCall
    /\ legacy = NoLegacy
    /\ InitEngine

NextServer ==
    \/ Next
    \/ \E r \in RunIds : ResumeAI(r)
    \/ PatchWorkflow
    \/ DeleteWorkflow

SpecServer == InitServer /\ [][NextServer]_vars

\* The engine with what goes on around a run: AI steps, a cancellation
\* raised and the graph saved while a run is suspended, user code that draws
\* a random number or throws.
OpsWorkflows ==
    {[kinds |-> k, shape |-> Chain] : k \in ServerKinds}
    \cup {[kinds |-> <<[type |-> "code", config |-> "random", n |-> 0],
                       [type |-> "condition", config |-> "throw", n |-> 0],
                       [type |-> "code", config |-> "double", n |-> 0]>>,
           shape |-> <<E(1, 2, "true", "a"), E(2, 3, "false", "a")>>],
          \* a fork whose edge to step 3 was created before the edge to step 2
          [kinds |-> <<[type |-> "manual_trigger", config |-> "", n |-> 0],
                       [type |-> "code", config |-> "double", n |-> 0],
                       [type |-> "code", config |-> "double", n |-> 0]>>,
           shape |-> <<E(1, 3, "true", "a"), E(1, 2, "true", "a")>>]}

\* the graph saved: step 3 and the edge to it are gone
SavedGraph ==
    [present |-> TRUE, hasSteps |-> TRUE, hasEdges |-> TRUE,
     steps |-> <<PlainStep, PlainStep>>, edges |-> <<PlainEdge(1, 2)>>]

InitOps ==
    /\ \E w \in OpsWorkflows :
          /\ steps = (WorkflowId :> MkSteps(w.kinds))
          /\ edges = (WorkflowId :> MkEdges(w.shape, w.kinds, 0))
    /\ triggerData = [r \in RunIds |-> NoTrigger]
    /\ resolverCall = NoCall
    /\ legacy = NoLegacy
    /\ InitEngine

NextOps ==
    \/ Next
    \/ \E r \in RunIds : ResumeAI(r)
    \/ \E r \in RunIds : CancelRun(r)
    \/ UpdateWorkflowWith({SavedGraph})

SpecOps == InitOps /\ [][NextOps]_vars

\* The store on its own, as the constructor leaves it, under the calls that
\* create, replace and delete steps and edges.
InitStore ==
    /\ steps = (WorkflowId :> <<>>)
    /\ edges = (WorkflowId :> <<>>)
    /\ triggerData = [r \in RunIds |-> NoTrigger]
    /\ resolverCall = NoCall
    /\ legacy = NoLegacy
    /\ InitEngine

NextStore ==
    \/ UpdateWorkflow
    \/ CreateWorkflowStep
    \/ DeleteWorkflowStep
    \/ CreateWorkflowEdge
    \/ DeleteWorkflowEdge

SpecStore == InitStore /\ [][NextStore]_vars

\* The store under createWorkflow and deleteWorkflow, from the state the
\* constructor leaves.
MaxWorkflows == 3

\* createWorkflow (lines 70-80): id = (number of workflows stored) + 1;
\* Map.set replaces the record stored under that id, if there is one
createWorkflow(workflow) ==
    LET id == Cardinality(DOMAIN workflows) + 1
    IN (id :> [id |-> id, name |-> workflow.name, graph |-> NoGraph]) @@ workflows

\* storage.createWorkflow({name})
CreateWorkflow ==
    /\ Cardinality(DOMAIN workflows) < MaxWorkflows
    /\ \E name \in {"a", "b", "c", "d"} : workflows' = createWorkflow([name |-> name])
    /\ UNCHANGED <<steps, edges>> /\ UNCHANGED <<requestVars, graph, executions,
                   stepExecutions, now, pc, execution, startNodes, contexts, visited,
                   stack, thrown, ret, calls, handled>>

\* storage.deleteWorkflow(id) (lines 130-134), a stored id or not
DeleteWorkflowOf ==
    /\ \E id \in 1..MaxWorkflows :
          /\ workflows' = MapDelete(workflows, id)
          /\ steps' = MapDelete(steps, id)
          /\ edges' = MapDelete(edges, id)
    /\ UNCHANGED <<requestVars, graph, executions, stepExecutions, now, pc, execution,
                   startNodes, contexts, visited, stack, thrown, ret, calls, handled>>

SpecCatalog == InitStore /\ [][CreateWorkflow \/ DeleteWorkflowOf]_vars

\* The webhook endpoint in front of the engine: workflows whose first step
\* is a webhook trigger, with a secret or without, and one that has none.
WebhookWorkflows == {
    <<[type |-> "webhook_trigger", config |-> "k", n |-> 0],
      ItemsStep,
      [type |-> "loop", config |-> "2", n |-> 0],
      [type |-> "code", config |-> "double", n |-> 0]>>,
    <<[type |-> "webhook_trigger", config |-> "", n |-> 0],
      [type |-> "condition", config |-> "true", n |-> 0],
      [type |-> "code", config |-> "throw", n |-> 0]>>,
    <<[type |-> "webhook_trigger", config |-> "k", n |-> 0],
      [type |-> "condition", config |-> "false", n |-> 0],
      [type |-> "manual_trigger", config |-> "", n |-> 0]>>,
    <<[type |-> "manual_trigger", config |-> "", n |-> 0],
      [type |-> "manual_trigger", config |-> "", n |-> 0]>>
}

\* step i is joined to step i + 1
ChainOf(n) == [i \in 1..(n - 1) |-> E(i, i + 1, "true", "a")]

InitWebhook ==
    /\ \E k \in WebhookWorkflows :
          /\ steps = (WorkflowId :> MkSteps(k))
          /\ edges = (WorkflowId :> MkEdges(ChainOf(Len(k)), k, 0))
    /\ triggerData = [r \in RunIds |-> NoTrigger]
    /\ resolverCall = NoCall
    /\ legacy = NoLegacy
    /\ InitEngine

NextWebhook ==
    \/ \E r \in RunIds : PostWebhook(r)
    \/ Next

SpecWebhook == InitWebhook /\ [][NextWebhook]_vars

\* executeWorkflow is awaited to its end: an enabled step of a run is taken
\* ------------------------------------------------- the template resolver
\* A template is the sequence of its characters; a name made of letters is
\* kept as one element, since the pattern /\{\{([^}]+)\}\}/g, trim, startsWith
\* and split tell apart only "{", "}", " ", "$" and ".".
\* Number of pieces (placeholders, stray braces, plain text) of a template.
MaxPieces == 2

\* a value of a kind the engine's own values do not need: an object with
\* its keys, a string, a built-in function reached through the prototype chain
Js(t, v) == [t |-> t, v |-> v]

\* the inputs handed to processTemplate
ResolverInputs ==
    {Js("object", <<>>),
     Js("object", "a" :> Js("object", "b" :> Js("string", "x"))),
     Js("object", "a" :> Js("string", "x") @@ "n" :> JsNull @@ "s" :> Js("string", "xy")),
     Js("object", "a" :> Js("object", "b" :> Num(3)) @@ "missing" :> Js("string", "m"))}

\* the templates of at most n pieces: placeholders, stray braces, plain text
RECURSIVE TemplatesOf(_)
TemplatesOf(n) ==
    LET paths == {<<"a">>, <<"a", ".", "b">>, <<"$", "a", ".", "b">>, <<" ", "a", " ">>,
                  <<"_all">>, <<"$", "_all">>, <<"missing">>, <<"a", ".", "missing">>,
                  <<"n", ".", "b">>, <<"constructor">>, <<"s", ".", "length">>,
                  <<" ">>, <<"$">>, <<"{", "a">>}
        pieces == {<<"{", "{">> \o path \o <<"}", "}">> : path \in paths}
                  \cup {<<"x">>, <<"{">>, <<"}">>}
    IN IF n = 0 THEN {<<>>}
       ELSE TemplatesOf(n - 1)
            \cup {t \o piece : t \in TemplatesOf(n - 1), piece \in pieces}

\* the string made of the characters
RECURSIVE Join(_)
Join(chars) == IF chars = <<>> THEN "" ELSE Head(chars) \o Join(Tail(chars))

\* path.trim()
RECURSIVE trim(_)
trim(path) ==
    IF path = <<>> THEN path
    ELSE IF Head(path) = " " THEN trim(Tail(path))
    ELSE IF Last(path) = " " THEN trim(SubSeq(path, 1, Len(path) - 1))
    ELSE path

\* path.split('.')
RECURSIVE split(_)
split(path) ==
    IF \E k \in 1..Len(path) : path[k] = "."
    THEN LET k == CHOOSE i \in 1..Len(path) :
                      path[i] = "." /\ \A j \in 1..(i - 1) : path[j] # "."
         IN <<Join(SubSeq(path, 1, k - 1))>> \o split(SubSeq(path, k + 1, Len(path)))
    ELSE <<Join(path)>>

\* current[part] as JavaScript reads it: an own property first, then the
\* prototype chain (Object.prototype.constructor, String.prototype.length
\* and constructor, Number.prototype.constructor, Function's length and
\* constructor)
GetProperty(current, part) ==
    IF current.t = "object" /\ part \in DOMAIN current.v THEN current.v[part]
    ELSE IF part = "constructor"
         THEN CASE current.t = "object" -> Js("function", "Object")
                [] current.t = "string" -> Js("function", "String")
                [] current.t = "number" -> Js("function", "Number")
                [] OTHER -> Js("function", "Function")
    ELSE IF part = "length" /\ current.t = "string" THEN Num(Len(current.v))
    ELSE IF part = "length" /\ current.t = "function" THEN Num(1)
    ELSE Undefined

\* the loop over the parts (lines 47-51)
RECURSIVE Walk(_, _)
Walk(current, parts) ==
    IF parts = <<>> THEN current
    ELSE IF current.t \in {"null", "undefined"} THEN Undefined
    ELSE Walk(GetProperty(current, Head(parts)), Tail(parts))

\* getInputValue (lines 35-54)
getInputValue(inputs, path) ==
    IF path = <<>> THEN Undefined
    ELSE LET p == IF Head(path) = "$" THEN Tail(path) ELSE path
         IN IF p = <<"_all">> THEN inputs ELSE Walk(inputs, split(p))

\* String(value)
String(value) ==
    CASE value.t = "string" -> value.v
      [] value.t = "number" -> toString(value.v)
      [] value.t = "null" -> "null"
      [] value.t = "function" -> "function " \o value.v \o "() { [native code] }"
      [] OTHER -> "[object Object]"

\* The end of the match of /\{\{([^}]+)\}\}/ at the start of the template, 0
\* if there is none: two "{", at least one character that is not "}", then
\* two "}".
MatchEnd(template) ==
    LET ends == {q \in 4..(Len(template) - 1) :
                    /\ template[q] = "}" /\ template[q + 1] = "}"
                    /\ \A j \in 3..(q - 1) : template[j] # "}"}
    IN IF Len(template) >= 5 /\ template[1] = "{" /\ template[2] = "{" /\ ends # {}
       THEN (CHOOSE q \in ends : TRUE) + 1
       ELSE 0

\* processTemplate (lines 57-63): template.replace(pattern, callback), match
\* by match from the left
RECURSIVE processTemplate(_, _)
processTemplate(template, inputs) ==
    IF template = <<>> THEN ""
    ELSE LET e == MatchEnd(template)
             value == getInputValue(inputs, trim(SubSeq(template, 3, e - 2)))
             rest == SubSeq(template, e + 1, Len(template))
         IN IF e = 0 THEN Head(template) \o processTemplate(Tail(template), inputs)
            ELSE (IF value # Undefined THEN String(value)
                  ELSE Join(SubSeq(template, 1, e)))
                 \o processTemplate(rest, inputs)

Resolve ==
    /\ resolverCall # NoCall /\ ~ resolverCall.done
    /\ resolverCall' = [resolverCall EXCEPT
            !.done = TRUE,
            !.result = processTemplate(resolverCall.template, resolverCall.inputs)]
    /\ UNCHANGED <<storeVars, triggerData, patches, cancelled, responses, legacy, graph,
                   executions, stepExecutions, now, pc, execution, startNodes, contexts,
                   visited, stack, thrown, ret, calls, handled>>

InitResolver ==
    /\ steps = (WorkflowId :> <<>>)
    /\ edges = (WorkflowId :> <<>>)
    /\ triggerData = [r \in RunIds |-> NoTrigger]
    /\ \E t \in TemplatesOf(MaxPieces), i \in ResolverInputs :
          resolverCall = [template |-> t, inputs |-> i, done |-> FALSE, result |-> ""]
    /\ legacy = NoLegacy
    /\ InitEngine

SpecResolver == InitResolver /\ [][Resolve]_vars

\* ------------------------------- the second executeWorkflow (l.524-619)
\* It takes the nodes and edges from its workflow argument, keeps outputs
\* and visited as locals and runs the start nodes and the children of a
\* node through Promise.all: each executeNode call runs until its first
\* await before the next call of the same map is made.

\* the workflows handed to it: every shape with AI, code and trigger nodes
LegacyGraphs ==
    {[nodes |-> [i \in ShapeSteps |-> [id |-> toString(i), type |-> k[i]]],
      edges |-> [i \in 1..Len(sh) |-> [source |-> toString(sh[i].s),
                                       target |-> toString(sh[i].t)]]] :
        sh \in Shapes,
        k \in [ShapeSteps -> {"basic_llm_chain", "code", "manual_trigger"}]}

\* The calls executeNode(nodeId) of todo, made one after the other, each up
\* to its first await (lines 556-592).  A call returns at once on a visited
\* or unknown node; on an AI node it invokes executeAINode and is left
\* pending; on any other node it computes the result, writes outputs[nodeId],
\* adds the node to visited and calls its children before it awaits them.
\* An entry with after = TRUE is a call that goes on behind its await of
\* executeAINode with the result.
RECURSIVE LegacyCalls(_, _)
LegacyCalls(st, todo) ==
    IF todo = <<>> THEN st
    ELSE LET nodeId == Head(todo).id
             found == SelectSeq(st.nodes, LAMBDA n : n.id = nodeId)
             out == SelectSeq(st.edges, LAMBDA e : e.source = nodeId)
             children == [i \in 1..Len(out) |-> [id |-> out[i].target, after |-> FALSE]]
             result == IF Head(todo).after THEN [t |-> "string", v |-> "text"]
                       ELSE IF Head(found).type = "code" THEN Num(1)
                       ELSE Undefined
         IN IF ~ Head(todo).after /\ (nodeId \in st.visited \/ found = <<>>)
            THEN LegacyCalls(st, Tail(todo))
            ELSE IF ~ Head(todo).after /\ Head(found).type = "basic_llm_chain"
            THEN LegacyCalls([st EXCEPT !.pending = Append(@, nodeId),
                                        !.invoked = Append(@, nodeId)], Tail(todo))
            ELSE LegacyCalls([st EXCEPT !.outputs = (nodeId :> result) @@ @,
                                        !.visited = @ \cup {nodeId},
                                        !.written = Append(@, nodeId),
                                        !.invoked = IF Head(todo).after THEN @
                                                    ELSE Append(@, nodeId)],
                             children \o Tail(todo))

legacyUnchanged ==
    UNCHANGED <<storeVars, triggerData, patches, cancelled, responses, resolverCall, graph,
                stepExecutions, pc, execution, startNodes, contexts, visited, stack, thrown,
                ret, calls, handled>>

\* createExecution and Promise.all(startNodes.map(node => executeNode(node.id)))
\* up to its await (lines 525-530, 547-549, 595)
LegacyStart ==
    /\ legacy.pc = "idle" /\ legacy.nodes # <<>>
    /\ LET start == SelectSeq(legacy.nodes, LAMBDA n :
                        ~ \E i \in 1..Len(legacy.edges) : legacy.edges[i].target = n.id)
       IN legacy' = LegacyCalls(
              [legacy EXCEPT !.pc = "running", !.execution = Len(executions) + 1],
              [i \in 1..Len(start) |-> [id |-> start[i].id, after |-> FALSE]])
    /\ executions' = createExecution(executions, WorkflowId)
    /\ now' = now + 1
    /\ legacyUnchanged

\* an AI call returns: the pending executeNode call goes on (lines 566, 587-592);
\* or it fails, Promise.all rejects and the catch block marks the run failed
\* (lines 606-613) while the other pending calls stay on their own
LegacyResume ==
    /\ legacy.pc \in {"running", "threw"}
    /\ \E k \in DOMAIN legacy.pending, ok \in BOOLEAN :
          LET rest == [legacy EXCEPT !.pending =
                          SubSeq(@, 1, k - 1) \o SubSeq(@, k + 1, Len(@))]
          IN IF ok
             THEN /\ legacy' = LegacyCalls(rest, <<[id |-> legacy.pending[k], after |-> TRUE]>>)
                  /\ UNCHANGED <<executions, now>>
             ELSE IF legacy.pc = "running"
             THEN /\ legacy' = [rest EXCEPT !.pc = "threw"]
                  /\ executions' = updateExecution(executions, legacy.execution,
                          [status |-> "failed", endTime |-> now, error |-> AIError])
                  /\ now' = now + 1
             ELSE /\ legacy' = rest
                  /\ UNCHANGED <<executions, now>>
    /\ legacyUnchanged

\* every call has returned: updateExecution(completed) (lines 597-604)
LegacyComplete ==
    /\ legacy.pc = "running" /\ legacy.pending = <<>>
    /\ executions' = updateExecution(executions, legacy.execution,
            [status |-> "completed", endTime |-> now, outputs |-> legacy.outputs])
    /\ legacy' = [legacy EXCEPT !.pc = "returned"]
    /\ now' = now + 1
    /\ legacyUnchanged

InitLegacy ==
    /\ steps = (WorkflowId :> <<>>)
    /\ edges = (WorkflowId :> <<>>)
    /\ triggerData = [r \in RunIds |-> NoTrigger]
    /\ resolverCall = NoCall
    /\ \E g \in LegacyGraphs :
          legacy = [NoLegacy EXCEPT !.nodes = g.nodes, !.edges = g.edges]
    /\ InitEngine

SpecLegacy == InitLegacy /\ [][LegacyStart \/ LegacyResume \/ LegacyComplete]_vars

FairSpec == Spec /\ WF_vars(Next)

TypeOK ==
    /\ \A r \in RunIds : pc[r] \in {"idle", "running", "returned", "threw"}

\* ------------------------------------------------------ graph of the run
StepIds == {x.id : x \in Range(getWorkflowSteps(WorkflowId))}
StepOf(id) == CHOOSE x \in Range(getWorkflowSteps(WorkflowId)) : x.id = id
EdgeSet == Range(getWorkflowEdges(WorkflowId))
Incoming(id) == {e \in EdgeSet : e.targetId = id}
StartSteps == {id \in StepIds : Incoming(id) = {}}

RECURSIVE ReachFrom(_, _)
ReachFrom(frontier, seen) ==
    LET nxt == {e.targetId : e \in {x \in EdgeSet : x.sourceId \in frontier}} \ seen
    IN IF nxt = {} THEN seen ELSE ReachFrom(nxt, seen \cup nxt)

\* the steps reachable from id along one edge or more
Descendants(id) == ReachFrom({id}, {})
OnCycle(id) == id \in Descendants(id)
NoLoopStep == \A id \in StepIds : StepOf(id).type # "loop"

Ended(r) == pc[r] \in {"returned", "threw"}
Started(r) == pc[r] # "idle"
StepExecutionsOf(r) == IF Started(r) THEN getStepExecutions(execution[r].id) ELSE <<>>
RunRecord(r) == executions[execution[r].id]
Count(seq, x) == Cardinality({i \in 1..Len(seq) : seq[i] = x})
CallsTo(r, nodeId) == Cardinality({i \in 1..Len(calls[r]) : calls[r][i].to = nodeId})
EverCompleted(se) == "completed" \in Range(se.history)

\* ----------------------------------------------------------------- claims

\* C1: in a run of a workflow without a loop step, for every step id at most
\* one StepExecution of the run ever has status completed, and the step's
\* handler is invoked at most once, through one incoming edge or several.
C1_AtMostOnce ==
    \A r \in RunIds :
        NoLoopStep =>
            \A id \in StepIds :
                /\ Cardinality({i \in 1..Len(StepExecutionsOf(r)) :
                        /\ StepExecutionsOf(r)[i].stepId = id
                        /\ EverCompleted(StepExecutionsOf(r)[i])}) <= 1
                /\ Count(handled[r], toString(id)) <= 1

\* a run without loop has ended after a step with two incoming edges was
\* called through both and ran once
C1_Witness ==
    \E r \in RunIds, id \in StepIds :
        /\ NoLoopStep /\ Ended(r)
        /\ Cardinality(Incoming(id)) = 2
        /\ CallsTo(r, toString(id)) = 2
        /\ Count(handled[r], toString(id)) = 1
        /\ \E i \in 1..Len(StepExecutionsOf(r)) :
              /\ StepExecutionsOf(r)[i].stepId = id
              /\ EverCompleted(StepExecutionsOf(r)[i])

HasStepExecution(r, id) ==
    \E i \in 1..Len(StepExecutionsOf(r)) : StepExecutionsOf(r)[i].stepId = id

\* the targets of the edges out of c labelled `label` that have no other
\* incoming edge
ExclusiveTargets(c, label) ==
    {e.targetId : e \in {x \in EdgeSet : /\ x.sourceId = c /\ x.label = label
                                          /\ Incoming(x.targetId) = {x}}}

BranchLabel(b) == IF b THEN "true" ELSE "false"
InSomeOutputs(r, id) ==
    \E k \in 1..Len(contexts[r]) : toString(id) \in DOMAIN contexts[r][k].outputs

\* C2 as stated: after a completed run in which a condition step evaluated to
\* b, the step on the b branch has a StepExecution and an entry in the run's
\* final outputs, and the step on the other branch has neither.
C2_Original ==
    \A r \in RunIds :
        pc[r] = "returned" =>
            \A i \in 1..Len(StepExecutionsOf(r)) :
                LET se == StepExecutionsOf(r)[i]
                IN (StepOf(se.stepId).type = "condition" /\ se.status = "completed") =>
                      /\ \A x \in ExclusiveTargets(se.stepId, BranchLabel(se.output.v)) :
                            /\ HasStepExecution(r, x)
                            /\ toString(x) \in DOMAIN RunRecord(r).outputs
                      /\ \A x \in ExclusiveTargets(se.stepId, BranchLabel(~ se.output.v)) :
                            /\ ~ HasStepExecution(r, x)
                            /\ toString(x) \notin DOMAIN RunRecord(r).outputs

\* C2 (amended): the step on the branch that was not selected never gets a
\* StepExecution nor an entry in any outputs map; after a completed run, the
\* step on the selected branch of a condition that was executed outside any
\* loop iteration has a StepExecution and an entry in the final outputs.
C2_BranchExclusive ==
    \A r \in RunIds :
        /\ \A c \in StepIds :
              StepOf(c).type = "condition" =>
                 \A x \in ExclusiveTargets(c, BranchLabel(~ evaluateCondition(StepOf(c)))) :
                    /\ ~ HasStepExecution(r, x)
                    /\ ~ InSomeOutputs(r, x)
                    /\ Started(r) => toString(x) \notin DOMAIN RunRecord(r).outputs
        /\ pc[r] = "returned" =>
              \A i \in 1..Len(StepExecutionsOf(r)) :
                 LET se == StepExecutionsOf(r)[i]
                 IN (/\ StepOf(se.stepId).type = "condition"
                     /\ se.status = "completed"
                     /\ se.input.all = 1) =>
                        \A x \in ExclusiveTargets(se.stepId, BranchLabel(se.output.v)) :
                           /\ HasStepExecution(r, x)
                           /\ toString(x) \in DOMAIN RunRecord(r).outputs

\* a completed run with a condition at the top level whose selected step ran
\* and whose other branch holds a step too
C2_Witness ==
    \E r \in RunIds, c \in StepIds :
        /\ pc[r] = "returned"
        /\ StepOf(c).type = "condition"
        /\ \E i \in 1..Len(StepExecutionsOf(r)) :
              /\ StepExecutionsOf(r)[i].stepId = c
              /\ StepExecutionsOf(r)[i].status = "completed"
              /\ StepExecutionsOf(r)[i].input.all = 1
        /\ \E x \in ExclusiveTargets(c, BranchLabel(evaluateCondition(StepOf(c)))) :
              /\ HasStepExecution(r, x)
              /\ toString(x) \in DOMAIN RunRecord(r).outputs
        /\ ExclusiveTargets(c, BranchLabel(~ evaluateCondition(StepOf(c)))) # {}

CycleMessage == "Circular dependency detected in execution path"

\* a directed cycle can be reached from a start step
ReachableCycle ==
    \E s \in StartSteps, a \in StepIds : (a = s \/ a \in Descendants(s)) /\ OnCycle(a)

HandlerMessages == {UserError.msg, LoopInputError.msg, NullToStringError.msg}

\* the run followed a cycle round: it called a step whose handler had run
\* from one of that step's descendants
CycleFollowed(r) ==
    \E i \in 1..Len(calls[r]), a \in StepIds :
        /\ OnCycle(a)
        /\ calls[r][i].to = toString(a)
        /\ calls[r][i].again
        /\ calls[r][i].from \in {toString(d) : d \in Descendants(a)}

\* C3: a run of a workflow with a directed cycle reachable from a start step
\* ends failed with an error reporting the cycle, and no step on the cycle
\* has its handler run twice.  Stated for the runs that followed the cycle
\* round and were not ended by a handler's own error.
C3_CycleFails ==
    \A r \in RunIds :
        (Ended(r) /\ ReachableCycle /\ CycleFollowed(r)) =>
            /\ RunRecord(r).status = "failed"
            /\ RunRecord(r).error.msg \notin HandlerMessages => RunRecord(r).error.msg = CycleMessage
            /\ \A a \in StepIds : OnCycle(a) => Count(handled[r], toString(a)) <= 1

Terminal == {"completed", "failed"}

\* C4: a WorkflowExecution is created with status running, receives exactly
\* one status update, to completed or to failed, and after that update its
\* status, endTime, error and outputs never change.
C4_RunLifecycle ==
    [][/\ \A id \in DOMAIN executions' :
            /\ id \notin DOMAIN executions =>
                  executions'[id].status = "running" /\ executions'[id].updates = 0
            /\ executions'[id].updates <= 1
            /\ executions'[id].updates = 1 <=> executions'[id].status \in Terminal
            /\ (id \in DOMAIN executions /\ executions[id].status \in Terminal) =>
                  executions'[id] = executions[id]
       /\ \A r \in RunIds : Ended(r)' => RunRecord(r)'.updates = 1]_vars

\* a run has ended failed after its one update
C4_Witness ==
    \E r \in RunIds :
        /\ pc[r] = "threw"
        /\ RunRecord(r).status = "failed" /\ RunRecord(r).updates = 1
        /\ RunRecord(r).endTime > RunRecord(r).startTime

\* C5: once a StepExecution is completed or failed, its status never changes
\* again, also when a step dispatched after it fails.
C5_StepStatusFinal ==
    [][\A i \in 1..Len(stepExecutions) : \A j \in 1..Len(stepExecutions[i].list) :
          stepExecutions[i].list[j].status \in Terminal =>
             stepExecutions'[i].list[j].status = stepExecutions[i].list[j].status]_vars

\* C6: when a step's handler raises, the step's StepExecution is failed with
\* the error message, the error propagates to executeWorkflow, which sets the
\* run failed with endTime and that message, and no step is dispatched after
\* the failure.
C6_FailurePropagates ==
    [][\A r \in RunIds :
          /\ (thrown[r] = NoError /\ thrown'[r] # NoError) =>
                /\ Last(StepExecutionsOf(r)').status = "failed"
                /\ Last(StepExecutionsOf(r)').error = thrown'[r]
          /\ thrown[r] # NoError =>
                /\ thrown'[r] = thrown[r]
                /\ calls'[r] = calls[r] /\ handled'[r] = handled[r]
                /\ Len(StepExecutionsOf(r)') = Len(StepExecutionsOf(r))
                /\ Last(StepExecutionsOf(r)').status = "failed"
                /\ Last(StepExecutionsOf(r)').error = thrown[r]
                /\ pc'[r] # "returned"
                /\ Ended(r)' =>
                      /\ RunRecord(r)'.status = "failed"
                      /\ RunRecord(r)'.error = thrown[r]
                      /\ RunRecord(r)'.endTime > 0]_vars

\* C7: when a step B is dispatched, the output of every step A from which B
\* can be reached along edges is already written in the outputs map.
C7_PredecessorsWritten ==
    [][\A r \in RunIds :
          Len(calls'[r]) > Len(calls[r]) =>
             LET c == Last(calls'[r])
             IN \A a \in StepIds :
                   (toString(a) # c.to /\ c.to \in {toString(d) : d \in Descendants(a)}) =>
                      toString(a) \in DOMAIN contexts'[r][c.ctx].outputs]_vars

\* the handler of step a ran before the handler of step b in run r
HandledBefore(r, a, b) ==
    \E i, j \in 1..Len(handled[r]) : i < j /\ handled[r][i] = a /\ handled[r][j] = b

\* C8: a loop step over n items with k outgoing edges runs each child once
\* per item and yields n arrays of k results, entry [i][j] being the j-th
\* child's result for item i (a child returning currentItem * 2 gives 2 * item).
\* Stated for a loop that is on no cycle, whose children have no other
\* incoming edge, and whose array was written before the loop ran.
C8_LoopResult ==
    \A r \in RunIds :
        \A x \in 1..Len(StepExecutionsOf(r)) :
            LET se == StepExecutionsOf(r)[x]
                loop == StepOf(se.stepId)
                items == LoopItems(loop, contexts[r][se.input.all].outputs).v
                children == OutgoingEdges(WorkflowId, toString(se.stepId))
            IN (/\ loop.type = "loop" /\ se.status = "completed"
                /\ ~ OnCycle(se.stepId)
                /\ IsArray(Lookup(contexts[r][se.input.all].outputs, loop.config))
                /\ HandledBefore(r, loop.config, toString(se.stepId))
                /\ \A j \in 1..Len(children) :
                      Cardinality(Incoming(children[j].targetId)) = 1) =>
                  /\ Len(se.output.v) = Len(items)
                  /\ \A i \in 1..Len(se.output.v) :
                        /\ Len(se.output.v[i].v) = Len(children)
                        /\ \A j \in 1..Len(se.output.v[i].v) :
                              StepOf(children[j].targetId).config = "double" =>
                                 se.output.v[i].v[j] = Num(2 * items[i].v)
                  /\ \A j \in 1..Len(children) :
                        Count(handled[r], toString(children[j].targetId)) = Len(items)

RECURSIVE Ancestors(_, _)
\* the contexts an iteration context was copied from, directly or not
Ancestors(r, k) ==
    IF contexts[r][k].parent = 0 THEN {}
    ELSE {contexts[r][k].parent} \cup Ancestors(r, contexts[r][k].parent)

\* no key currentItem at the top level, and what a step wrote inside an
\* iteration shows only in that iteration's outputs and in copies made of it
LoopIsolation ==
    \A r \in RunIds :
        Started(r) =>
            /\ "currentItem" \notin DOMAIN contexts[r][1].outputs
            /\ "currentItem" \notin DOMAIN RunRecord(r).outputs
            /\ \A x \in 1..Len(StepExecutionsOf(r)) :
                  LET se == StepExecutionsOf(r)[x]
                  IN se.input.all > 1 =>
                        /\ toString(se.stepId) \notin DOMAIN RunRecord(r).outputs
                        /\ \A j \in 1..Len(contexts[r]) :
                              toString(se.stepId) \in DOMAIN contexts[r][j].outputs =>
                                 (j = se.input.all \/ se.input.all \in Ancestors(r, j))

\* C9: the final outputs hold no key currentItem and no entry of a step that
\* ran only inside a loop iteration; an iteration starts from the parent's
\* outputs plus its own currentItem, and what it writes is seen neither by
\* the parent nor by a later iteration.
C9_LoopIsolation ==
    [][/\ LoopIsolation'
       /\ \A r \in RunIds :
             (Started(r) /\ Len(contexts'[r]) = Len(contexts[r]) + 1) =>
                LET new == Last(contexts'[r])
                IN new.outputs = Put(contexts[r][new.parent].outputs, "currentItem",
                                     Head(Top(r).items))]_vars

\* a completed run in which a step ran inside the second iteration of a loop
C9_Witness ==
    \E r \in RunIds :
        /\ pc[r] = "returned"
        /\ Len(contexts[r]) >= 3
        /\ \E x \in 1..Len(StepExecutionsOf(r)) :
              /\ StepExecutionsOf(r)[x].input.all > 1
              /\ StepExecutionsOf(r)[x].status = "completed"
        /\ \E k \in 2..Len(contexts[r]) :
              \E key \in DOMAIN contexts[r][k].outputs :
                 key # "currentItem" /\ key \notin DOMAIN contexts[r][1].outputs

\* String(value)
StringOf(value) == IF value.t = "null" THEN "null" ELSE value.v

RECURSIVE CallTargets(_)
CallTargets(cs) == IF cs = <<>> THEN <<>> ELSE <<Head(cs).to>> \o CallTargets(Tail(cs))

\* the steps called from step s, in order
CallsFrom(r, s) == CallTargets(SelectSeq(calls[r], LAMBDA c : c.from = toString(s)))

\* the successor a switch is to take: the target of the first edge labelled
\* with the string form of the value, else of the edge labelled "default"
SwitchTarget(s) ==
    LET out == OutgoingEdges(WorkflowId, toString(s))
        byValue == FindLabel(out, StringOf(evaluateSwitchExpression(StepOf(s))))
    IN MapTargets(IF byValue # <<>> THEN byValue ELSE FindLabel(out, "default"))

\* C10: a switch step dispatches the target of the edge whose label is the
\* string form of the value, else the target of the edge labelled "default",
\* else nothing, and never any other successor.
C10_SwitchSelection ==
    \A r \in RunIds :
        Ended(r) =>
            \A s \in StepIds :
                (StepOf(s).type = "switch" /\ toString(s) \in Range(handled[r])) =>
                    CallsFrom(r, s) = SwitchTarget(s)

\* C11: at the end of a run, a StepExecution of the run is completed if and
\* only if the run's outputs map holds an output for its step, also for a
\* step run inside a loop iteration and for a step whose descendant failed.
C11_CompletedIffCommitted ==
    \A r \in RunIds :
        Ended(r) =>
            \A x \in 1..Len(StepExecutionsOf(r)) :
                LET se == StepExecutionsOf(r)[x]
                IN se.status = "completed" <=>
                      toString(se.stepId) \in DOMAIN contexts[r][1].outputs

\* the edges a run is to follow: of a condition the edges labelled with its
\* result, of a switch the selected edge, of a loop its edges when it called
\* a child, of any other step all its edges
TakenEdges(r) ==
    {e \in EdgeSet :
        LET src == StepOf(e.sourceId)
        IN CASE src.type = "condition" -> e.label = BranchLabel(evaluateCondition(src))
             [] src.type = "switch" -> <<toString(e.targetId)>> = SwitchTarget(e.sourceId)
             [] src.type = "loop" ->
                   \E i \in 1..Len(calls[r]) : calls[r][i].from = toString(e.sourceId)
             [] OTHER -> TRUE}

RECURSIVE TakenFrom(_, _)
TakenFrom(r, seen) ==
    LET nxt == {e.targetId : e \in {x \in TakenEdges(r) : x.sourceId \in seen}} \ seen
    IN IF nxt = {} THEN seen ELSE TakenFrom(r, seen \cup nxt)

\* C12: when a run has status completed, every step reachable from a start
\* step along the taken branches has a StepExecution in a terminal status,
\* and no StepExecution of the run is failed or running.
C12_CompletedRun ==
    \A r \in RunIds :
        (Started(r) /\ RunRecord(r).status = "completed") =>
            /\ \A id \in TakenFrom(r, StartSteps) :
                  \E x \in 1..Len(StepExecutionsOf(r)) :
                     /\ StepExecutionsOf(r)[x].stepId = id
                     /\ StepExecutionsOf(r)[x].status \in Terminal
            /\ \A x \in 1..Len(StepExecutionsOf(r)) :
                  StepExecutionsOf(r)[x].status \notin {"failed", "running"}

\* C15: the run record executeWorkflow returns is handed over after the run
\* has terminated and carries the run's terminal status, the status stored
\* for the run at that moment.
C15_ReturnedRecord ==
    \A r \in RunIds :
        pc[r] = "returned" =>
            /\ RunRecord(r).status \in Terminal
            /\ execution[r].status \in Terminal
            /\ execution[r].status = RunRecord(r).status

\* C16: every run that was created reaches a terminal status, on cyclic
\* graphs as on acyclic ones: the run is eventually completed or failed.
C16_RunTerminates ==
    \A r \in RunIds :
        (pc[r] # "idle") ~> (pc[r] # "idle" /\ RunRecord(r).status \in Terminal)

\* a run on a workflow with a cycle reachable from a start step has ended
\* after it followed the cycle round
C16_Witness ==
    \E r \in RunIds :
        /\ Ended(r) /\ ReachableCycle /\ CycleFollowed(r)
        /\ RunRecord(r).status \in Terminal

\* C18: a run of a workflow in which every step lies on a cycle, so that no
\* step is without an incoming edge, ends failed with the cycle error; it
\* does not end completed.
C18_AllCycleFails ==
    \A r \in RunIds :
        (Ended(r) /\ StepIds # {} /\ StartSteps = {}) =>
            /\ RunRecord(r).status = "failed"
            /\ RunRecord(r).error.msg = CycleMessage

\* C13: within a run, an entry of the outputs map is never overwritten or
\* removed once written (the key currentItem excepted): the trigger entry
\* seeded at run start and the entries merged from a source workflow's
\* outputs as well as the outputs of steps.
C13_OutputsAppendOnly ==
    [][\A r \in RunIds :
          \A k \in 1..Len(contexts[r]) :
             \A key \in DOMAIN contexts[r][k].outputs \ {"currentItem"} :
                /\ key \in DOMAIN contexts'[r][k].outputs
                /\ contexts'[r][k].outputs[key] = contexts[r][k].outputs[key]]_vars

\* C14: in a run started with a webhook, app_event or workflow trigger, the
\* outputs entry of the matching trigger step holds the seeded value
\* {triggered: true, triggerType, envelope} when each downstream step is
\* dispatched and in the run's final outputs.
C14_TriggerPassThrough ==
    [][\A r \in RunIds :
          LET node == TriggerNode(getWorkflowSteps(WorkflowId), triggerData[r])
          IN (triggerData[r] # NoTrigger /\ node # <<>>) =>
                LET key == toString(Head(node).id)
                    down == {toString(d) : d \in Descendants(Head(node).id)} \ {key}
                IN /\ (Len(calls'[r]) > Len(calls[r]) /\ Last(calls'[r]).to \in down) =>
                         Lookup(contexts'[r][Last(calls'[r]).ctx].outputs, key)
                            = SeededOutput(triggerData[r])
                   /\ (pc[r] # "returned" /\ pc'[r] = "returned") =>
                         Lookup(RunRecord(r)'.outputs, key) = SeededOutput(triggerData[r])]_vars

\* the run that takes the step: only the run holding the thread, before or
\* after the step, acts
Acting(r) == Busy(r) \/ Busy(r)'

\* C17: when two runs execute interleaved, the outputs maps and the
\* StepExecution records of a run are changed by that run only: an update
\* issued by one run never modifies a StepExecution of another run.
C17_RunIsolation ==
    [][(\A q \in RunIds : pc[q] = "running") =>
          /\ \A i \in 1..Len(stepExecutions) :
                \A j \in 1..Len(stepExecutions[i].list) :
                   stepExecutions'[i].list[j] # stepExecutions[i].list[j] =>
                      \E r \in RunIds :
                         /\ Acting(r)
                         /\ execution[r].id = stepExecutions[i].list[j].workflowExecutionId
          /\ \A r \in RunIds : contexts'[r] # contexts[r] => Acting(r)]_vars

\* C19: after PATCH /api/workflows/{id} with steps and edges arrays, GET
\* /api/workflows/{id} returns the graph that was sent: the same steps with
\* kinds and configs, the same edges with endpoints and labels.
C19_PatchThenGet ==
    (/\ patches # <<>>
     /\ Last(patches).graph.present
     /\ WorkflowId \in DOMAIN workflows) =>
        /\ GetWorkflow(WorkflowId).graph.present
        /\ GetWorkflow(WorkflowId).graph.steps = Last(patches).graph.steps
        /\ GetWorkflow(WorkflowId).graph.edges = Last(patches).graph.edges

\* C20: after DeleteWorkflow(id) the store holds no workflow, step, edge or
\* run of that workflow (stated while no run is in progress).
C20_DeleteCascades ==
    (WorkflowId \notin DOMAIN workflows /\ \A r \in RunIds : pc[r] # "running") =>
        /\ getWorkflowSteps(WorkflowId) = <<>>
        /\ getWorkflowEdges(WorkflowId) = <<>>
        /\ \A id \in DOMAIN executions : executions[id].workflowId # WorkflowId

\* C21: after any sequence of store operations that create, replace or
\* delete steps and edges, every edge stored for a workflow has a sourceId
\* and a targetId that are ids of steps stored for that workflow.
C21_EdgeEndpointsExist ==
    \A w \in DOMAIN edges :
        \A i \in 1..Len(edges[w]) :
            /\ edges[w][i].sourceId \in {x.id : x \in Range(getWorkflowSteps(w))}
            /\ edges[w][i].targetId \in {x.id : x \in Range(getWorkflowSteps(w))}

\* the run has been created and has dispatched no step yet
AtRunStart(r) == pc[r] = "running" /\ calls[r] = <<>>

\* C22 as stated: at run start, before any step is dispatched, the outputs
\* map holds at most one entry, that of the resolved trigger step, for every
\* trigger type.
C22_Original ==
    \A r \in RunIds :
        AtRunStart(r) =>
            LET o == contexts[r][1].outputs
                node == TriggerNode(getWorkflowSteps(WorkflowId), triggerData[r])
            IN /\ Cardinality(DOMAIN o) <= 1
               /\ DOMAIN o # {} => (node # <<>> /\ DOMAIN o = {toString(Head(node).id)})

\* C22 (amended): at run start the outputs map holds the entry of the
\* resolved trigger step, if there is one, and, for a workflow trigger only,
\* the entries of the source run's outputs, which take precedence; for every
\* other trigger type it holds at most one entry.
C22_InitialOutputs ==
    \A r \in RunIds :
        AtRunStart(r) =>
            LET o == contexts[r][1].outputs
                trigger == triggerData[r]
                node == TriggerNode(getWorkflowSteps(WorkflowId), trigger)
                merged == IF trigger.type = "workflow" THEN DOMAIN trigger.outputs ELSE {}
            IN /\ DOMAIN o = merged \cup (IF node # <<>> THEN {toString(Head(node).id)} ELSE {})
               /\ \A k \in DOMAIN o :
                     o[k] = IF k \in merged THEN trigger.outputs[k] ELSE SeededOutput(trigger)
               /\ trigger.type # "workflow" => Cardinality(DOMAIN o) <= 1

\* a run started by a workflow trigger holds the trigger step's entry and an
\* entry of the source run; another was started by a trigger that carries
\* outputs without being a workflow trigger
C22_Witness ==
    /\ \E r \in RunIds :
          /\ AtRunStart(r) /\ triggerData[r].type = "workflow"
          /\ Cardinality(DOMAIN contexts[r][1].outputs) = 2
    /\ \E r \in RunIds :
          /\ Started(r) /\ triggerData[r].type = "manual" /\ triggerData[r].outputs # <<>>

\* the step taken has answered a webhook request
Answered == responses' # responses

C24_Cancellation ==
    [][\A r \in RunIds :
          (cancelled[r] /\ pc[r] = "running") =>
             /\ calls'[r] = calls[r]
             /\ handled'[r] = handled[r]
             /\ pc'[r] # "returned"
             /\ Ended(r)' =>
                   /\ RunRecord(r)'.status = "failed"
                   /\ RunRecord(r)'.error.msg = "CANCELLED"]_vars


\* C25: two runs of the same workflow that has no AI step, started with
\* identical trigger payloads, end with equal outputs maps and dispatch the
\* same steps in the same order.  (The workflow is the same for both runs:
\* no updateWorkflow has replaced its steps or edges.)
C25_Determinism ==
    (/\ Ended(1) /\ Ended(2)
     /\ \A i \in DOMAIN steps[WorkflowId] : steps[WorkflowId][i].type # "basic_llm_chain"
     /\ ~ workflows[WorkflowId].graph.present
     /\ triggerData[1] = triggerData[2])
    => /\ RunRecord(1).outputs = RunRecord(2).outputs
       /\ CallTargets(calls[1]) = CallTargets(calls[2])

\* What a dotted path finds in the inputs: the value stored under the keys
\* of the path, Undefined when a key is missing.
RECURSIVE Found(_, _)
Found(value, parts) ==
    IF parts = <<>> THEN value
    ELSE IF value.t = "object" /\ Head(parts) \in DOMAIN value.v
         THEN Found(value.v[Head(parts)], Tail(parts))
    ELSE Undefined

Resolved(inputs, path) ==
    LET p == IF path # <<>> /\ Head(path) = "$" THEN Tail(path) ELSE path
    IN IF p = <<"_all">> THEN inputs
       ELSE IF p = <<>> THEN Undefined
       ELSE Found(inputs, split(p))

\* the template with each placeholder whose path resolves replaced by the
\* value found, and every other placeholder left as written
RECURSIVE Substituted(_, _)
Substituted(template, inputs) ==
    IF template = <<>> THEN ""
    ELSE LET e == MatchEnd(template)
             value == Resolved(inputs, trim(SubSeq(template, 3, e - 2)))
         IN IF e = 0 THEN Head(template) \o Substituted(Tail(template), inputs)
            ELSE (IF value # Undefined THEN String(value)
                  ELSE Join(SubSeq(template, 1, e)))
                 \o Substituted(SubSeq(template, e + 1, Len(template)), inputs)

\* C26: the template resolver replaces each {{path}} whose dotted path
\* resolves in the inputs by the value found (a leading $ is stripped, _all
\* is the whole inputs map) and leaves every placeholder whose path is
\* missing exactly as written.
C26_TemplateResolver ==
    resolverCall.done =>
        resolverCall.result = Substituted(resolverCall.template, resolverCall.inputs)

\* the targets of the edges out of step s in the graph the run was started on
StartTargets(r, s) ==
    IF s \in DOMAIN graph[r] THEN {e.targetId : e \in Range(graph[r][s])} ELSE {}

\* C27: a run traverses the graph as it stood when the run started, whatever
\* updateWorkflow does meanwhile: every step the run dispatches from another
\* step is at the end of an edge of that graph, and a step that is not a
\* condition, switch or loop returns only after it has dispatched the target
\* of every edge that graph has out of it.
C27_GraphAtStart ==
    [][\A r \in RunIds :
          /\ calls'[r] # calls[r] =>
                LET c == Last(calls'[r])
                IN c.from = "" \/ c.to \in StartTargets(r, c.from)
          /\ (/\ pc[r] = "running" /\ stack[r] # <<>> /\ thrown[r] = NoError
              /\ Last(stack[r]).pc = "children"
              /\ Last(stack[r]).node.type \notin {"condition", "switch", "loop"}
              /\ Len(stack'[r]) < Len(stack[r]))
             => \A t \in StartTargets(r, Last(stack[r]).nodeId) :
                   \E i \in DOMAIN calls[r] :
                      /\ calls[r][i].from = Last(stack[r]).nodeId
                      /\ calls[r][i].to = t
                      /\ calls[r][i].ctx = Last(stack[r]).ctx]_vars

\* the stored step with that id is user code that throws when evaluated
Throws(id) ==
    \E i \in DOMAIN steps[WorkflowId] :
        /\ steps[WorkflowId][i].id = id
        /\ \/ steps[WorkflowId][i].type \in {"code", "condition"}
              /\ steps[WorkflowId][i].config = "throw"
           \/ steps[WorkflowId][i].type = "switch"
              /\ steps[WorkflowId][i].config = "null"

\* C28: an exception thrown while evaluating user-supplied code (a code
\* step's body, a condition's or a switch's expression) fails that step and
\* the run: once the run has ended, the StepExecution of such a step is
\* failed, the run is failed and no edge out of the step was followed.
C28_UserCodeThrows ==
    \A r \in RunIds :
        (Ended(r) /\ ~ workflows[WorkflowId].graph.present) =>
            \A i \in 1..Len(StepExecutionsOf(r)) :
                Throws(StepExecutionsOf(r)[i].stepId) =>
                    /\ StepExecutionsOf(r)[i].status = "failed"
                    /\ RunRecord(r).status = "failed"
                    /\ CallsFrom(r, StepExecutionsOf(r)[i].stepId) = <<>>

\* the stored step with that id is a switch whose value is the label of no
\* edge out of it, and no edge out of it is labelled "default"
Unresolved(id) ==
    \E i \in DOMAIN steps[WorkflowId] :
        /\ steps[WorkflowId][i].id = id
        /\ steps[WorkflowId][i].type = "switch"
        /\ ~ \E e \in EdgeSet : /\ e.sourceId = id
                                /\ e.label \in {steps[WorkflowId][i].config, "default"}

\* C29: a switch whose value matches no outgoing edge label, with no edge
\* labelled "default", still ends completed and does not fail the run,
\* whatever the value (null and undefined included).
C29_SwitchUnresolved ==
    \A r \in RunIds :
        Ended(r) =>
            \A i \in 1..Len(StepExecutionsOf(r)) :
                Unresolved(StepExecutionsOf(r)[i].stepId) =>
                    /\ StepExecutionsOf(r)[i].status = "completed"
                    /\ RunRecord(r).error # NullToStringError

\* C30: a loop whose config.input resolves to anything other than an array
\* (a missing key, null, a number, a string, an object) fails with the type
\* error when the step is executed, so that no child is dispatched and the
\* error is on its way to fail the run.
C30_LoopNonArray ==
    [][\A r \in RunIds :
          (/\ pc[r] = "running" /\ stack[r] # <<>> /\ thrown[r] = NoError
           /\ Last(stack[r]).pc = "body"
           /\ Last(stack[r]).node.type = "loop"
           /\ ~ IsArray(Lookup(contexts[r][Last(stack[r]).ctx].outputs,
                               Last(stack[r]).node.config))
           /\ stack'[r] # stack[r])
          => /\ thrown'[r] = LoopInputError
             /\ calls'[r] = calls[r]
             /\ Last(stack'[r]).pc = "rethrow"]_vars

\* The place of a step among ready siblings: Step.order, then Step.id.  The
\* store gives a step the order of its position (order: step.order || index),
\* which is the order of the ids.
OrderKey(nodeId) == CHOOSE i \in DOMAIN IdStr : IdStr[i] = nodeId

\* C31: steps that are ready together (the start steps of a run, the
\* targets of one step's outgoing edges) are dispatched in ascending
\* Step.order, then ascending Step.id, whatever the order in which the edges
\* are stored.
C31_SiblingOrder ==
    \A r \in RunIds :
        \A i, j \in DOMAIN calls[r] :
            (/\ i < j
             /\ calls[r][i].from = calls[r][j].from
             /\ calls[r][i].ctx = calls[r][j].ctx)
            => OrderKey(calls[r][i].to) <= OrderKey(calls[r][j].to)

\* C32: a step with several incoming edges is dispatched once, when the
\* first of its predecessors on a taken path reaches it, and not again when
\* the other predecessors complete: it has exactly one StepExecution in the
\* run, whatever calls the other predecessors make later.
C32_FanInOnce ==
    \A r \in RunIds :
        \A id \in StepIds :
            Cardinality(Incoming(id)) >= 2 =>
                LET n == Cardinality({i \in 1..Len(StepExecutionsOf(r)) :
                                         StepExecutionsOf(r)[i].stepId = id})
                IN /\ n <= 1
                   /\ toString(id) \in Range(handled[r]) => n = 1

\* the steps that are the target of no edge of the graph the run started on
StartStepsOf(r) ==
    {id \in StepIds : \A src \in DOMAIN graph[r] : toString(id) \notin StartTargets(r, src)}

\* C33: in a run that does not fail each step with no incoming edge is
\* dispatched exactly once, as a start step, whatever the trigger of the run;
\* a step with an incoming edge is never used as a start step and is
\* dispatched only along an edge out of a step the run has executed.
C33_StartSteps ==
    \A r \in RunIds :
        /\ (Ended(r) /\ RunRecord(r).status = "completed") =>
              \A id \in StartStepsOf(r) :
                 /\ CallsTo(r, toString(id)) = 1
                 /\ \E i \in DOMAIN calls[r] :
                       calls[r][i].to = toString(id) /\ calls[r][i].from = ""
        /\ \A i \in DOMAIN calls[r] :
              IF calls[r][i].from = ""
              THEN \A src \in DOMAIN graph[r] : calls[r][i].to \notin StartTargets(r, src)
              ELSE /\ calls[r][i].to \in StartTargets(r, calls[r][i].from)
                   /\ calls[r][i].from \in Range(handled[r])

\* a run started by an app event on the workflow with two trigger steps has
\* ended completed
C33_Witness ==
    \E r \in RunIds :
        /\ Ended(r) /\ RunRecord(r).status = "completed"
        /\ triggerData[r].type = "app_event"
        /\ Cardinality(StartStepsOf(r)) = 2
        /\ CallsTo(r, "3") = 2

\* C34: the inputs recorded as StepExecution.input hold _all, one entry for
\* each direct predecessor of the step, keyed by the predecessor's id and
\* holding its output, and inside a loop body an entry currentItem.
C34_InputsView ==
    \A r \in RunIds :
        \A i \in 1..Len(StepExecutionsOf(r)) :
            LET se == StepExecutionsOf(r)[i]
            IN /\ "all" \in DOMAIN se.input
               /\ \A e \in Incoming(se.stepId) :
                     toString(e.sourceId) \in DOMAIN se.input
               /\ se.input.all > 1 => "currentItem" \in DOMAIN se.input

\* the outputs map that the recorded input of a StepExecution shows
InputShown(r, se) == contexts[r][se.input.all].outputs

\* C35: StepExecution.input is a snapshot taken at dispatch: what the
\* recorded input of a step shows does not change when steps of the run
\* commit their outputs afterwards.
C35_InputSnapshot ==
    [][\A r \in RunIds :
          Started(r) =>
             \A i \in 1..Len(StepExecutionsOf(r)) :
                InputShown(r, StepExecutionsOf(r)[i])' = InputShown(r, StepExecutionsOf(r)[i])]_vars

\* C36: the update that finalizes a failed run sets status, endTime and
\* error only: the stored run keeps the empty outputs of its creation, also
\* when steps had committed outputs before the failure; a completed run
\* stores the full final outputs map.
C36_FailedRunOutputs ==
    \A r \in RunIds :
        Ended(r) =>
            /\ RunRecord(r).status \in {"failed", "completed"}
            /\ RunRecord(r).status = "failed" =>
                  /\ RunRecord(r).outputs = <<>>
                  /\ RunRecord(r).error # NoError
                  /\ RunRecord(r).endTime > 0
            /\ RunRecord(r).status = "completed" =>
                  RunRecord(r).outputs = contexts[r][1].outputs

\* a run has ended failed after some of its steps had committed outputs
C36_Witness ==
    \E r \in RunIds :
        /\ Ended(r) /\ RunRecord(r).status = "failed"
        /\ contexts[r][1].outputs # <<>>

\* C37: in the executeWorkflow that runs children and start nodes through
\* Promise.all, a node reached from two parents is executed once: its
\* handler is invoked at most once, also while its first invocation awaits
\* the AI call, and its output is written at most once.
C37_LegacyOnce ==
    \A i \in DOMAIN legacy.nodes :
        /\ Count(legacy.invoked, legacy.nodes[i].id) <= 1
        /\ Count(legacy.written, legacy.nodes[i].id) <= 1

\* C38: after any sequence of createWorkflow and deleteWorkflow on the
\* in-memory store, createWorkflow returns an id that no stored workflow
\* has: every creation adds a workflow and replaces none.
C38_FreshWorkflowId ==
    [][CreateWorkflow =>
          /\ DOMAIN workflows' # DOMAIN workflows
          /\ \A id \in DOMAIN workflows : workflows'[id] = workflows[id]]_vars

====
